---- MODULE Spec2Model ----
(***************************************************************************)
(* MUJICA knowledge base: the ingest path of KnowledgeBase                 *)
(* (src/source/src/data_engine/storage.py).                                *)
(*                                                                         *)
(* Two stores are modelled.  SQLite holds the papers and reviews tables.   *)
(* LanceDB holds two vector tables, papers and chunks.  A text is          *)
(* abstracted to its length in tokens and a vector to its length, so a     *)
(* vector of length 0 is the empty vector an embedding failure returns.    *)
(* A vector table is a bag of rows: LanceDB has no primary key, so the     *)
(* same chunk_id can be stored more than once.                             *)
(***************************************************************************)
EXTENDS Integers, Sequences, FiniteSets, TLC

(***************************************************************************)
(* Bounds of the model.                                                    *)
(***************************************************************************)
\* Longest paper list handed to one ingest_data call.
MaxPapers == 2
\* Largest number of reviews one paper entry carries.
MaxReviews == 1
\* The imports into one data directory.
MaxImports == 2
\* The longest list an ingest job fetches, and the jobs of a run.
MaxListLen == 41
MaxJobs == 2
\* The exports of a run.
MaxExports == 2
\* The ingest jobs started on the shared directory.
MaxStarts == 3
\* The job records the manager holds.
MaxRecords == 2
\* The longest text handed to chunk_text, in units.
MaxTextUnits == 450
\* MUJICA_EMBEDDING_BATCH_SIZE as configured for the runs (1..256 allowed),
\* small enough that one call spans several embedding requests.
EmbeddingBatchSize == 6
\* Token length of a text that fits one chunk, and of a full text that does not.
ShortLen == 40
LongLen == 500
\* The publication year the ingested paper entries carry.
InputYear == 2024

(***************************************************************************)
(* Program constants.                                                      *)
(***************************************************************************)
chunk_max_tokens == 350
chunk_overlap_tokens == 60
max_reviews_per_paper == 10
MinChunkTokens == 50
\* None in the year column of a row of the papers table.
NoneYear == 0

PaperIds == {"p1", "p2"}
\* Embedding dimensions a configured model can have (the spec's 64 and 128).
Dims == {64, 128}

Min(a, b) == IF a <= b THEN a ELSE b
Max(a, b) == IF a >= b THEN a ELSE b
Range(s) == {s[k] : k \in DOMAIN s}

(***************************************************************************)
(* Bags of rows.                                                           *)
(***************************************************************************)
EmptyBag == [r \in {} |-> 0]
BagOfSeq(s) == [r \in Range(s) |-> Cardinality({k \in DOMAIN s : s[k] = r})]
BagPlus(A, B) ==
    [r \in DOMAIN A \cup DOMAIN B |->
        (IF r \in DOMAIN A THEN A[r] ELSE 0) + (IF r \in DOMAIN B THEN B[r] ELSE 0)]
\* The bag B restricted to the rows in keep.
BagKeep(B, keep) == [r \in DOMAIN B \cap keep |-> B[r]]

(***************************************************************************)
(* chunk_text, on the token length of the text: the number of fragments.   *)
(***************************************************************************)
RECURSIVE WindowCount(_, _, _, _)
WindowCount(start, n, max_tokens, overlap_tokens) ==
    LET end == Min(start + max_tokens, n)
    IN  IF end >= n THEN 1
        ELSE 1 + WindowCount(Max(0, end - overlap_tokens), n, max_tokens, overlap_tokens)

chunk_text(len, max_tokens, overlap_tokens) ==
    IF len = 0 THEN 0
    ELSE LET m  == Max(MinChunkTokens, max_tokens)
             o0 == Max(0, overlap_tokens)
             o  == IF o0 >= m THEN m \div 5 ELSE o0
         IN  IF len <= m THEN 1 ELSE WindowCount(0, len, m, o)

(***************************************************************************)
(* A paper entry of an ingest call.  id is "" when missing; content is the *)
(* token length of the parsed full text (0: none); reviews is the length   *)
(* of the review list; the other fields say whether the text is non-empty. *)
(***************************************************************************)
Paper(id, content, reviews, decision_text, rebuttal_text, tldr, title) ==
    [id |-> id, content |-> content, reviews |-> reviews,
     decision_text |-> decision_text, rebuttal_text |-> rebuttal_text,
     tldr |-> tldr, title |-> title]

ReviewSourceNames == <<"review_0", "review_1", "review_2", "review_3", "review_4",
                       "review_5", "review_6", "review_7", "review_8", "review_9">>
ReviewSource(ridx) == ReviewSourceNames[ridx + 1]
ReviewSources == {ReviewSource(k) : k \in 0 .. (max_reviews_per_paper - 1)}

\* The (source, text) list of one paper, in the order the code appends it.
Sources(p) ==
    <<<<"meta", ShortLen>>>>
    \o (IF p.title THEN <<<<"title_abstract", ShortLen>>>> ELSE <<>>)
    \o (IF p.tldr THEN <<<<"tldr", ShortLen>>>> ELSE <<>>)
    \o (IF p.decision_text THEN <<<<"decision", ShortLen>>>> ELSE <<>>)
    \o (IF p.rebuttal_text THEN <<<<"rebuttal", ShortLen>>>> ELSE <<>>)
    \o [k \in 1 .. Min(p.reviews, max_reviews_per_paper) |-> <<ReviewSource(k - 1), ShortLen>>]
    \o (IF p.content > 0 THEN <<<<"full_text", p.content>>>> ELSE <<>>)

ChunkRow(pid, source_name, idx) ==
    [chunk_id |-> <<pid, source_name, idx>>, paper_id |-> pid,
     source |-> source_name, chunk_index |-> idx]

SourceRows(pid, src) ==
    [k \in 1 .. chunk_text(src[2], chunk_max_tokens, chunk_overlap_tokens)
        |-> ChunkRow(pid, src[1], k - 1)]

RECURSIVE PaperChunkRows(_, _, _)
PaperChunkRows(pid, srcs, k) ==
    IF k > Len(srcs) THEN <<>>
    ELSE SourceRows(pid, srcs[k]) \o PaperChunkRows(pid, srcs, k + 1)

\* chunk_rows after the preparation loop over the first n papers.
RECURSIVE ChunkRows(_, _)
ChunkRows(ps, n) ==
    IF n = 0 THEN <<>>
    ELSE ChunkRows(ps, n - 1)
         \o (IF ps[n].id = "" THEN <<>> ELSE PaperChunkRows(ps[n].id, Sources(ps[n]), 1))

(***************************************************************************)
(* The state.                                                              *)
(***************************************************************************)
VARIABLES
    db,              \* TRUE once initialize_db has connected both stores
    sql_papers,      \* SQLite papers: the ids that have a row
    sql_reviews,     \* SQLite reviews: paper id -> number of review rows (idx 0..n-1)
    metadata_df,     \* the cached DataFrame of papers (ids)
    papers_tbl,      \* LanceDB papers table
    chunks_tbl,      \* LanceDB chunks table
    pc,              \* where the running call is; "idle" between calls
    papers,          \* the argument of the running ingest_data call
    dim,             \* the dimension the embedding model of this call returns
    idx,             \* the metadata loop's position in papers
    paper_vecs,      \* what get_embeddings returned for the paper texts
    paper_rows,      \* paper rows with a vector, built by this call
    merged,          \* the rows the rebuild is about to write
    chunk_vecs,      \* what get_embeddings returned for the chunk texts
    rows_to_insert,  \* chunk rows with a vector, built by this call
    requests,        \* embedding requests issued by this call
    papers0,         \* the papers table when the call began
    chunks0,         \* the chunks table when the call began
    failed_at        \* the pc at which the process stopped or a store failed, else ""

\* The embedding client (src/source/src/utils/llm.py), one get_embeddings call at a time.
VARIABLES
    emb_pc,          \* "idle", "create" (a provider request is due), "returned"
    texts,           \* the argument of the running get_embeddings call
    max_retries,     \* MUJICA_EMBEDDING_RETRY_MAX after the clamp
    attempt,         \* the attempt number of the running retry loop
    calls,           \* provider calls made by the running get_embeddings call
    sleeps,          \* backoff waits of the running get_embeddings call
    last_answer,     \* the response or error of the last provider call
    splitting,       \* TRUE while the input is re-sent in sub-batches
    max_batch,       \* the size of a sub-batch
    start,           \* the 0-based position of the running sub-batch in texts
    out_all,         \* the vectors of the sub-batches done so far
    out,             \* the value the call returned
    subs,            \* the limit the provider reported and the sub-batches answered since
    fake_dim,        \* MUJICA_FAKE_EMBEDDING_DIM when the running call is in fake mode, else 0
    prev_fake        \* the last fake-mode call: its texts, dim and value

llm_vars == <<emb_pc, texts, max_retries, attempt, calls, sleeps, last_answer, splitting,
              max_batch, start, out_all, out, subs, fake_dim, prev_fake>>

\* The SQLite metadata store behind one connection (self._meta_conn), one
\* _upsert_paper_and_reviews call at a time.
VARIABLES
    meta_file,       \* the committed content of the database file
    meta_conn,       \* the content as the connection reads it: the file plus its open transaction
    meta_call,       \* the running call: its arguments, the content before it, whether it raised
    supplied         \* per paper id, the provenance values the upserts have carried so far

meta_vars == <<meta_file, meta_conn, meta_call, supplied>>

\* The read side of the knowledge base: one search or lookup call at a time.
VARIABLES
    search           \* the running call: its arguments, what LanceDB returned, its result

search_vars == <<search>>

\* delete_paper and delete_papers with the failures of the two stores.
VARIABLES
    deletion         \* the running call: its ids, what failed, its result, the stores before it

del_vars == <<deletion>>

\* Export and import of the data directory (backend/app.py).
VARIABLES
    archive,         \* the ZIP the last export wrote
    transfer,        \* the running export or import: the directory before it, whether it raised
    imports,         \* the imports that have written the data directory
    received         \* the metadata.sqlite of the last import and the metadata it left

xfer_vars == <<archive, transfer, imports, received>>

\* The ingest job (backend/job_manager.py) and its ingest_venue call
\* (data_engine/ingestor.py), with the stores at the grain of paper ids.
VARIABLES
    job,             \* the IngestJob: its status and its cancel_event
    pipe,            \* the running ingest_venue call: its list, its position, what it has done
    kb_ids           \* per store and table, the ids of the papers that have rows in it

pipe_vars == <<job, pipe, kb_ids>>

\* chunk_text on a text given unit by unit (data_engine/chunker.py).
VARIABLES
    chunker          \* the running call: its arguments, its window and the fragments so far

chunk_vars == <<chunker>>

\* Ingest jobs in concurrent threads on one papers table (backend/app.py
\* start_ingest, storage.py ingest_data).
VARIABLES
    shared,          \* the papers table of the directory: its dimension, its rows, its creations
    writers,         \* per thread, the position of its ingest_data call in the papers write
    lost,            \* rows a rebuild dropped without having read them
    started          \* the ingest jobs started so far

race_vars == <<shared, writers, lost, started>>

\* The job records of the backend (backend/job_manager.py JobBase, JobManager).
VARIABLES
    records,         \* manager.jobs: per job id, the fields of the record
    clock           \* time.time(), a count of the moments read so far

life_vars == <<records, clock>>

\* The sub-models that follow the ingest job.
ext == <<chunk_vars, race_vars, life_vars>>

\* The state outside the knowledge base.
aux == <<llm_vars, meta_vars, search_vars, del_vars, xfer_vars, pipe_vars, ext>>

\* The state of the knowledge base and of its running ingest call.
kb_vars == <<db, sql_papers, sql_reviews, metadata_df, papers_tbl, chunks_tbl, pc, papers,
             dim, idx, paper_vecs, paper_rows, merged, chunk_vecs, rows_to_insert, requests,
             papers0, chunks0, failed_at>>

vars == <<db, sql_papers, sql_reviews, metadata_df, papers_tbl, chunks_tbl, pc, papers,
          dim, idx, paper_vecs, paper_rows, merged, chunk_vecs, rows_to_insert, requests,
          papers0, chunks0, failed_at, aux>>

\* The state of the sub-models up to the ingest job.
base == <<kb_vars, llm_vars, meta_vars, search_vars, del_vars, xfer_vars, pipe_vars>>

stores == <<sql_papers, sql_reviews, papers_tbl, chunks_tbl>>
\* What the papers step and the chunks step of a call leave behind.
papers_step == <<paper_vecs, paper_rows, merged>>
chunks_step == <<chunk_vecs, rows_to_insert>>
locals == <<papers, dim, idx, papers_step, chunks_step, requests, papers0, chunks0,
            failed_at>>

(***************************************************************************)
(* LanceDB tables.  dim is the list_size of the vector column; a column    *)
(* without a pinned size (dim <= 0) takes a vector of any length.          *)
(***************************************************************************)
NoTable == [exists |-> FALSE, year_type |-> "", dim |-> 0, rows |-> EmptyBag]
\* The distinct rows of a table.
AllRows(tbl) == DOMAIN tbl.rows

Fits(vector, schema_dim) == schema_dim <= 0 \/ vector = schema_dim
\* Table.add: Arrow refuses a row whose vector does not fit the column.
CanAdd(tbl, rows) == \A k \in DOMAIN rows : Fits(rows[k].vector, tbl.dim)
TableAdd(tbl, rows) == [tbl EXCEPT !.rows = BagPlus(@, BagOfSeq(rows))]
\* Table.delete(where), gone being the rows the predicate selects.
TableDelete(tbl, gone) == [tbl EXCEPT !.rows = BagKeep(@, DOMAIN @ \ gone)]
\* db.create_table(name, data, schema) with the vector column of size schema_dim.
CanCreate(rows, schema_dim) == \A k \in DOMAIN rows : Fits(rows[k].vector, schema_dim)
CreateTable(rows, schema_dim) ==
    [exists |-> TRUE, year_type |-> "int64", dim |-> schema_dim, rows |-> BagOfSeq(rows)]
\* tbl.search(query_vector): the query must have the column's size.
CanSearch(tbl, query_dim) == tbl.exists /\ Fits(query_dim, tbl.dim)

NoFakeCall == [texts |-> <<>>, dim |-> 0, out |-> <<>>]
NoAnswer == [kind |-> "", have |-> {}, limit |-> 0]
NoSubs == [limit |-> 0, sent |-> <<>>]

InitLlm ==
    /\ emb_pc = "idle"
    /\ texts = <<>>
    /\ max_retries = 0
    /\ attempt = 0
    /\ calls = 0
    /\ sleeps = 0
    /\ last_answer = NoAnswer
    /\ splitting = FALSE
    /\ max_batch = 0
    /\ start = 0
    /\ out_all = <<>>
    /\ out = <<>>
    /\ subs = NoSubs
    /\ fake_dim = 0
    /\ prev_fake = NoFakeCall

(***************************************************************************)
(* The metadata store: the papers table holds, per id, the five columns    *)
(* that carry provenance; the reviews table holds, per id, the rows keyed  *)
(* by idx.  NULL is SQL's NULL and Python's None.                          *)
(***************************************************************************)
NULL == "NULL"
MetaIds == {"p1", "p2"}
ProvFields == {"pdf_url", "pdf_path", "decision", "decision_text", "rebuttal_text"}
\* The columns compared after TRIM (storage.py 787-798); the others are compared as they are.
TrimmedFields == {"decision", "decision_text", "rebuttal_text"}
NoRow == [f \in ProvFields |-> "absent"]
EmptyStore == [papers |-> [id \in MetaIds |-> NoRow], reviews |-> [id \in MetaIds |-> {}]]
NoCall == [active |-> FALSE]
NoSupplied == [id \in MetaIds |-> [first |-> NoRow, latest |-> [f \in ProvFields |-> NULL]]]

InitMeta ==
    /\ meta_file = EmptyStore
    /\ meta_conn = EmptyStore
    /\ meta_call = NoCall
    /\ supplied = NoSupplied

NoSearch == [op |-> "", limit |-> 0, qdim |-> 0, cid |-> <<>>, raised |-> FALSE,
             raw |-> <<>>, results |-> <<>>]
InitSearch == search = NoSearch

NoDeletion == [op |-> "", ids |-> {}, fails |-> {}, raised |-> FALSE, ok |-> FALSE,
               before |-> <<>>]
InitDeletion == deletion = NoDeletion

\* No export yet; any later value holds the files of the archive.
NoArchive == [written |-> FALSE, exports |-> 0]
NoTransfer == [op |-> "", raised |-> FALSE, again |-> FALSE, before |-> <<>>]
NoReceipt == [sqlite |-> <<>>, after |-> <<>>]
InitTransfer ==
    /\ archive = NoArchive
    /\ transfer = NoTransfer
    /\ imports = 0
    /\ received = NoReceipt

NoJob == [status |-> "init", cancel |-> FALSE, started |-> 0]
NoPipe == [pc |-> "idle", papers |-> <<>>, i |-> 0, d |-> 0, parse |-> FALSE,
           papers_ok |-> FALSE, chunks_ok |-> FALSE, chunks_part |-> FALSE,
           existing |-> {}, before |-> <<>>, restart |-> FALSE, origin |-> <<>>,
           passed |-> <<>>, parsed |-> {}, rebuilt |-> FALSE, cancel_at |-> -1]
NoIds == [meta |-> {},
          rows |-> [exists |-> FALSE, dim |-> 0, ids |-> {}],
          chunks |-> [exists |-> FALSE, dim |-> 0, ids |-> {}, full |-> {}, partial |-> {}]]
InitPipe ==
    /\ job = NoJob
    /\ pipe = NoPipe
    /\ kb_ids = NoIds

NoChunking == [pc |-> "idle", mode |-> "", input |-> <<>>, max_tokens |-> 0,
               overlap_tokens |-> 0, text |-> <<>>, size |-> 0, overlap |-> 0, start |-> 0,
               windows |-> <<>>, chunks |-> <<>>]
InitChunker == chunker = NoChunking

InitRecords ==
    /\ records = <<>>
    /\ clock = 1

Threads == {"A", "B"}
NoShared == [exists |-> FALSE, dim |-> 0, rows |-> {}, created |-> 0]
NoWriter == [pc |-> "idle", d |-> 0, id |-> 0, handle |-> 0, old_rows |-> {}]
InitRace ==
    /\ shared = NoShared
    /\ writers = [t \in Threads |-> NoWriter]
    /\ lost = {}
    /\ started = 0

InitAux ==
    /\ InitLlm /\ InitMeta /\ InitSearch /\ InitDeletion /\ InitTransfer /\ InitPipe
    /\ InitChunker /\ InitRace /\ InitRecords

Init ==
    /\ db = FALSE
    /\ sql_papers = {}
    /\ sql_reviews = [p \in PaperIds |-> 0]
    /\ metadata_df = {}
    /\ papers_tbl = NoTable
    /\ chunks_tbl = NoTable
    /\ pc = "idle"
    /\ papers = <<>>
    /\ dim = 0
    /\ idx = 0
    /\ paper_vecs = <<>>
    /\ paper_rows = <<>>
    /\ merged = <<>>
    /\ chunk_vecs = <<>>
    /\ rows_to_insert = <<>>
    /\ requests = 0
    /\ papers0 = NoTable
    /\ chunks0 = NoTable
    /\ failed_at = ""
    /\ InitAux

(***************************************************************************)
(* initialize_db                                                           *)
(***************************************************************************)
InitializeDb ==
    /\ pc = "idle"
    /\ ~db
    /\ db' = TRUE
    /\ metadata_df' = sql_papers
    /\ UNCHANGED <<stores, pc, locals>>
    /\ UNCHANGED aux

(***************************************************************************)
(* ingest_data: entry and the guard on the two handles.                    *)
(***************************************************************************)
IngestData(ps, d) ==
    /\ pc = "idle"
    /\ db
    /\ Len(ps) > 0
    /\ pc' = "upsert"
    /\ papers' = ps
    /\ dim' = d
    /\ idx' = 1
    /\ papers0' = papers_tbl
    /\ chunks0' = chunks_tbl
    /\ UNCHANGED <<db, stores, metadata_df, papers_step, chunks_step, requests, failed_at>>
    /\ UNCHANGED aux

IngestDataNotInitialized(ps) ==
    /\ pc = "idle"
    /\ ~db
    /\ Len(ps) > 0
    /\ pc' = "raised"
    /\ papers' = ps
    /\ UNCHANGED <<db, stores, metadata_df, dim, idx, papers_step, chunks_step, requests,
                   papers0, chunks0, failed_at>>
    /\ UNCHANGED aux

(***************************************************************************)
(* _upsert_paper_and_reviews, one paper of the first loop; it commits.     *)
(***************************************************************************)
replace_empty_reviews == FALSE

\* Variant: the first loop leaves the metadata store as it is.
UpsertWithoutCommit ==
    /\ pc = "upsert"
    /\ idx' = idx + 1
    /\ pc' = IF idx = Len(papers) THEN "embed_papers" ELSE "upsert"
    /\ UNCHANGED <<db, stores, metadata_df, papers, dim, papers_step, chunks_step, requests,
                   papers0, chunks0, failed_at>>
    /\ UNCHANGED aux

UpsertPaperAndReviews ==
    /\ pc = "upsert"
    /\ LET p == papers[idx]
       IN  IF p.id = ""
           THEN UNCHANGED <<sql_papers, sql_reviews>>
           ELSE /\ sql_papers' = sql_papers \cup {p.id}
                /\ sql_reviews' =
                      IF p.reviews > 0 \/ replace_empty_reviews
                      THEN [sql_reviews EXCEPT ![p.id] = p.reviews]
                      ELSE sql_reviews
    /\ idx' = idx + 1
    /\ pc' = IF idx = Len(papers) THEN "embed_papers" ELSE "upsert"
    /\ UNCHANGED <<db, metadata_df, papers_tbl, chunks_tbl, papers, dim, papers_step,
                   chunks_step, requests, papers0, chunks0, failed_at>>
    /\ UNCHANGED aux

(***************************************************************************)
(* Embedding in batches: get_embeddings answers a batch with its vectors   *)
(* or with an empty vector for each text.  ok is the set of batches the    *)
(* provider answers.                                                       *)
(***************************************************************************)
Batches(n) == (n + EmbeddingBatchSize - 1) \div EmbeddingBatchSize
BatchOf(k) == ((k - 1) \div EmbeddingBatchSize) + 1
get_embeddings(n, ok, d) == [k \in 1 .. n |-> IF BatchOf(k) \in ok THEN d ELSE 0]

WithVector(row, vec) ==
    [f \in DOMAIN row \cup {"vector"} |-> IF f = "vector" THEN vec ELSE row[f]]

\* Variant: every row is kept, the ones with an empty vector too.
WithVectorsKeepEmpty(rows, vecs, k) ==
    [i \in 1 .. (Len(rows) + 1 - k) |-> WithVector(rows[i + k - 1], vecs[i + k - 1])]

\* Keep the rows whose vector is not empty, each with its vector.
RECURSIVE WithVectors(_, _, _)
WithVectors(rows, vecs, k) ==
    IF k > Len(rows) THEN <<>>
    ELSE (IF vecs[k] = 0 THEN <<>> ELSE <<WithVector(rows[k], vecs[k])>>)
         \o WithVectors(rows, vecs, k + 1)

\* paper_payload: one entry per paper with an id (the text to embed is never empty).
RECURSIVE PaperPayload(_, _)
PaperPayload(ps, n) ==
    IF n = 0 THEN <<>>
    ELSE PaperPayload(ps, n - 1)
         \o (IF ps[n].id = "" THEN <<>> ELSE <<[id |-> ps[n].id, year |-> InputYear]>>)

(***************************************************************************)
(* Step 2 of ingest_data: the paper-level vectors and the papers table.    *)
(***************************************************************************)
NeedsRebuild(tbl, expected_dim) ==
    \/ tbl.year_type = "null"
    \/ (tbl.dim > 0 /\ expected_dim > 0 /\ tbl.dim # expected_dim)

\* tbl.to_list(): the rows of a table in some order.
RECURSIVE SeqOfBag(_)
SeqOfBag(B) ==
    IF DOMAIN B = {} THEN <<>>
    ELSE LET r == CHOOSE x \in DOMAIN B : TRUE
         IN  [k \in 1 .. B[r] |-> r] \o SeqOfBag([x \in DOMAIN B \ {r} |-> B[x]])

FitRows(rows, expected_dim) ==
    SelectSeq(rows, LAMBDA r : ~(expected_dim # 0 /\ r.vector # expected_dim))

\* An old row as the rebuild copies it: the year is written as None.
Migrated(rows) == [k \in DOMAIN rows |-> [rows[k] EXCEPT !.year = NoneYear]]

\* Variant: the read of the old rows fails and the rebuild goes on without them.
MergedWithoutOldRows(tbl, rows, expected_dim) == FitRows(rows, expected_dim)

\* The rows of the rebuilt table: old rows that are not re-written and fit, then the new.
Merged(tbl, rows, expected_dim) ==
    LET ids_set == {rows[k].id : k \in DOMAIN rows}
        old_rows == SeqOfBag(BagKeep(tbl.rows, {r \in AllRows(tbl) : r.id \notin ids_set}))
    IN  Migrated(FitRows(old_rows, expected_dim)) \o FitRows(rows, expected_dim)

\* Variant: the schema leaves the size of the vector column open.
UntypedSchemaDim(expected_dim) == 0

\* The size the explicit schema pins the vector column to.
PapersSchemaDim(expected_dim) == expected_dim

EmbedAndWritePapers(ok) ==
    /\ pc = "embed_papers"
    /\ LET payload == PaperPayload(papers, Len(papers))
           vecs == get_embeddings(Len(payload), ok, dim)
           rows == WithVectors(payload, vecs, 1)
       IN  /\ paper_vecs' = vecs
           /\ paper_rows' = rows
           /\ requests' = requests + Batches(Len(payload))
           /\ IF rows = <<>>
              THEN /\ pc' = "prepare_chunks"
                   /\ UNCHANGED <<papers_tbl, merged>>
              ELSE LET expected_dim == rows[1].vector
                   IN  IF papers_tbl.exists
                       THEN IF NeedsRebuild(papers_tbl, expected_dim)
                            THEN \* drop_table; create_table follows
                                 /\ merged' = Merged(papers_tbl, rows, expected_dim)
                                 /\ papers_tbl' = NoTable
                                 /\ pc' = "rebuild"
                            ELSE LET ids == {rows[k].id : k \in DOMAIN rows}
                                     kept == TableDelete(papers_tbl, {r \in AllRows(papers_tbl) : r.id \in ids})
                                 IN  /\ merged' = merged
                                     /\ IF CanAdd(kept, rows)
                                        THEN /\ papers_tbl' = TableAdd(kept, rows)
                                             /\ pc' = "prepare_chunks"
                                        ELSE /\ papers_tbl' = kept
                                             /\ pc' = "raised"
                       ELSE /\ merged' = merged
                            /\ IF CanCreate(rows, PapersSchemaDim(expected_dim))
                               THEN /\ papers_tbl' = CreateTable(rows, PapersSchemaDim(expected_dim))
                                    /\ pc' = "prepare_chunks"
                               ELSE /\ papers_tbl' = papers_tbl
                                    /\ pc' = "raised"
    /\ UNCHANGED <<db, sql_papers, sql_reviews, metadata_df, chunks_tbl, papers, dim, idx,
                   chunks_step, papers0, chunks0, failed_at>>
    /\ UNCHANGED aux

\* create_table of the rebuild, after the drop.
RebuildCreate ==
    /\ pc = "rebuild"
    /\ LET expected_dim == paper_rows[1].vector
       IN  IF CanCreate(merged, PapersSchemaDim(expected_dim))
           THEN /\ papers_tbl' = CreateTable(merged, PapersSchemaDim(expected_dim))
                /\ pc' = "prepare_chunks"
           ELSE /\ papers_tbl' = papers_tbl
                /\ pc' = "raised"
    /\ UNCHANGED <<db, sql_papers, sql_reviews, metadata_df, chunks_tbl, papers, dim, idx,
                   papers_step, chunks_step, requests, papers0, chunks0, failed_at>>
    /\ UNCHANGED aux

(***************************************************************************)
(* Step 3, first half: the loop that deletes a paper's old chunks and      *)
(* derives chunk_rows.                                                     *)
(***************************************************************************)
ingest_reviews == TRUE

\* Variant: a call without content clears the paper as a call with content does.
DeletesWholePaper(p, r) == r.paper_id = p.id

\* Variant: the decision rows go whether or not the call carries a decision text.
DeletesDecisionAlways(p, r) ==
    /\ r.paper_id = p.id
    /\ IF p.content > 0 THEN TRUE
       ELSE \/ r.source \in {"meta", "title_abstract", "tldr", "decision"}
            \/ (p.reviews > 0 /\ max_reviews_per_paper > 0 /\ r.source \in ReviewSources)
            \/ (p.rebuttal_text /\ r.source = "rebuttal")

\* Variant: a call with content deletes the sources it derives and no other.
DeletesDerivedOnly(p, r) ==
    /\ r.paper_id = p.id
    /\ \/ r.source \in {"meta", "title_abstract", "tldr"}
       \/ (p.content > 0 /\ r.source = "full_text")
       \/ (ingest_reviews /\ p.reviews > 0 /\ max_reviews_per_paper > 0
           /\ r.source \in ReviewSources)
       \/ (p.decision_text /\ r.source = "decision")
       \/ (p.rebuttal_text /\ r.source = "rebuttal")

\* The chunk rows of paper p that the loop deletes before it derives the new ones.
Deletes(p, r) ==
    /\ r.paper_id = p.id
    /\ IF p.content > 0 THEN TRUE
       ELSE \/ r.source \in {"meta", "title_abstract", "tldr"}
            \/ (ingest_reviews /\ p.reviews > 0 /\ max_reviews_per_paper > 0
                /\ r.source \in ReviewSources)
            \/ (p.decision_text /\ r.source = "decision")
            \/ (p.rebuttal_text /\ r.source = "rebuttal")

RECURSIVE DeleteOldChunks(_, _, _)
DeleteOldChunks(tbl, ps, n) ==
    IF n = 0 THEN tbl
    ELSE LET before == DeleteOldChunks(tbl, ps, n - 1)
         IN  IF ps[n].id = "" \/ ~before.exists THEN before
             ELSE TableDelete(before, {r \in AllRows(before) : Deletes(ps[n], r)})

PrepareChunks ==
    /\ pc = "prepare_chunks"
    /\ chunks_tbl' = DeleteOldChunks(chunks_tbl, papers, Len(papers))
    /\ pc' = "embed_chunks"
    /\ UNCHANGED <<db, sql_papers, sql_reviews, metadata_df, papers_tbl, papers, dim, idx,
                   papers_step, chunks_step, requests, papers0, chunks0, failed_at>>
    /\ UNCHANGED aux

(***************************************************************************)
(* Step 3, second half, and step 4: embed chunk_rows, write the chunks     *)
(* table, refresh metadata_df.                                             *)
(***************************************************************************)
\* The size LanceDB infers for the vector column of a table created from rows.
InferredDim(rows) == rows[1].vector

EmbedAndWriteChunks(ok) ==
    /\ pc = "embed_chunks"
    /\ LET chunk_rows == ChunkRows(papers, Len(papers))
           vecs == get_embeddings(Len(chunk_rows), ok, dim)
           rows == WithVectors(chunk_rows, vecs, 1)
       IN  /\ chunk_vecs' = vecs
           /\ rows_to_insert' = rows
           /\ requests' = requests + Batches(Len(chunk_rows))
           /\ IF rows = <<>>
              THEN /\ chunks_tbl' = chunks_tbl
                   /\ metadata_df' = sql_papers
                   /\ pc' = "returned"
              ELSE IF chunks_tbl.exists
                   THEN IF CanAdd(chunks_tbl, rows)
                        THEN /\ chunks_tbl' = TableAdd(chunks_tbl, rows)
                             /\ metadata_df' = sql_papers
                             /\ pc' = "returned"
                        ELSE /\ chunks_tbl' = chunks_tbl
                             /\ metadata_df' = metadata_df
                             /\ pc' = "raised"
                   ELSE IF CanCreate(rows, InferredDim(rows))
                        THEN /\ chunks_tbl' = CreateTable(rows, InferredDim(rows))
                             /\ metadata_df' = sql_papers
                             /\ pc' = "returned"
                        ELSE /\ chunks_tbl' = chunks_tbl
                             /\ metadata_df' = metadata_df
                             /\ pc' = "raised"
    /\ UNCHANGED <<db, sql_papers, sql_reviews, papers_tbl, papers, dim, idx, papers_step,
                   papers0, chunks0, failed_at>>
    /\ UNCHANGED aux

(***************************************************************************)
(* The environment: the process can stop inside a call and be started      *)
(* again (initialize_db reconnects and reloads metadata_df), a write to    *)
(* LanceDB can fail, and a call that returned or raised hands control back.*)
(***************************************************************************)
InCall == {"upsert", "embed_papers", "rebuild", "prepare_chunks", "embed_chunks"}

Crash ==
    /\ pc \in InCall
    /\ failed_at' = pc
    /\ pc' = "stopped"
    /\ db' = FALSE
    /\ papers' = <<>>
    /\ dim' = 0
    /\ idx' = 0
    /\ paper_vecs' = <<>>
    /\ paper_rows' = <<>>
    /\ merged' = <<>>
    /\ chunk_vecs' = <<>>
    /\ rows_to_insert' = <<>>
    /\ requests' = 0
    /\ UNCHANGED <<stores, metadata_df, papers0, chunks0>>
    /\ UNCHANGED aux

\* create_table of the rebuild raises.
RebuildCreateFails ==
    /\ pc = "rebuild"
    /\ pc' = "raised"
    /\ failed_at' = pc
    /\ UNCHANGED <<db, stores, metadata_df, papers, dim, idx, papers_step, chunks_step,
                   requests, papers0, chunks0>>
    /\ UNCHANGED aux

\* Every chunk text was embedded and the write to the chunks table raises.
ChunksWriteFails ==
    /\ pc = "embed_chunks"
    /\ LET chunk_rows == ChunkRows(papers, Len(papers))
           n == Len(chunk_rows)
           vecs == get_embeddings(n, 1 .. Batches(n), dim)
       IN  /\ n > 0
           /\ chunk_vecs' = vecs
           /\ rows_to_insert' = WithVectors(chunk_rows, vecs, 1)
           /\ requests' = requests + Batches(n)
    /\ pc' = "raised"
    /\ failed_at' = pc
    /\ UNCHANGED <<db, stores, metadata_df, papers, dim, idx, papers_step, papers0, chunks0>>
    /\ UNCHANGED aux

\* The INSERT of the papers row of papers[idx] raises; ingest_data has no handler
\* around its first loop, so the error leaves the call.
UpsertRaises ==
    /\ pc = "upsert"
    /\ papers[idx].id # ""
    /\ pc' = "raised"
    /\ failed_at' = pc
    /\ UNCHANGED <<db, stores, metadata_df, papers, dim, idx, papers_step, chunks_step,
                   requests, papers0, chunks0>>
    /\ UNCHANGED aux

Reset ==
    /\ pc' = "idle"
    /\ papers' = <<>>
    /\ dim' = 0
    /\ idx' = 0
    /\ paper_vecs' = <<>>
    /\ paper_rows' = <<>>
    /\ merged' = <<>>
    /\ chunk_vecs' = <<>>
    /\ rows_to_insert' = <<>>
    /\ requests' = 0
    /\ papers0' = NoTable
    /\ chunks0' = NoTable
    /\ failed_at' = ""

Finish ==
    /\ pc \in {"returned", "raised"}
    /\ Reset
    /\ UNCHANGED <<db, stores, metadata_df>>
    /\ UNCHANGED aux

Restart ==
    /\ pc = "stopped"
    /\ Reset
    /\ db' = TRUE
    /\ metadata_df' = sql_papers
    /\ UNCHANGED stores
    /\ UNCHANGED aux

(***************************************************************************)
(* delete_paper and delete_papers                                          *)
(***************************************************************************)
DeleteWhere(tbl, gone) == IF tbl.exists THEN TableDelete(tbl, gone) ELSE tbl

DeletePapers(ids) ==
    /\ pc = "idle"
    /\ db
    /\ ids # {}
    /\ sql_reviews' = [p \in PaperIds |-> IF p \in ids THEN 0 ELSE sql_reviews[p]]
    /\ sql_papers' = sql_papers \ ids
    /\ papers_tbl' = DeleteWhere(papers_tbl, {r \in AllRows(papers_tbl) : r.id \in ids})
    /\ chunks_tbl' = DeleteWhere(chunks_tbl, {r \in AllRows(chunks_tbl) : r.paper_id \in ids})
    /\ metadata_df' = sql_papers'
    /\ UNCHANGED <<db, pc, locals>>
    /\ UNCHANGED aux

DeletePaper(pid) == DeletePapers({pid})

(***************************************************************************)
(* get_paper_ids_with_content                                              *)
(***************************************************************************)
\* Variant: without the filter on source.
get_paper_ids_any_source(tbl) ==
    IF ~tbl.exists THEN {} ELSE {r.paper_id : r \in DOMAIN tbl.rows}

get_paper_ids_with_content(tbl) ==
    IF ~tbl.exists THEN {}
    ELSE {r.paper_id : r \in {x \in DOMAIN tbl.rows : x.source = "full_text"}}

(***************************************************************************)
(* The embedding client: get_embeddings, _embeddings_create_with_retry and *)
(* _fake_embedding.  A text is a string; the provider is an environment    *)
(* that answers each request with a response or an error.                  *)
(***************************************************************************)
\* Longest list handed to get_embeddings.
MaxTexts == 3
\* Values of MUJICA_EMBEDDING_RETRY_MAX, below, inside and above the clamp.
RetryMaxEnv == {-1, 1, 2, 40}
RetryMaxCap == 30
\* The N of a provider error "maximum allowed batch size N".
BatchLimits == {0, 2}
MaxBatchCap == 256
\* Values of MUJICA_FAKE_EMBEDDING_DIM.
FakeDims == {8, 17}
MinFakeDim == 16
FakeScale == 1000000
\* A four-byte word is kept below the largest number the runs can hold.
WordModulus == 2147483647
DigestWords == 8

TextSet == {"a b", "a\nb", "c"}
\* t.replace("\n", " ")
Clean(t) == IF t = "a\nb" THEN "a b" ELSE t
\* The UTF-8 bytes of a text, as a number.
TextCode(t) == CASE t = "a b" -> 1 [] t = "a\nb" -> 2 [] OTHER -> 3
\* The vector the provider computes for a text it is sent.
ProviderEmbedding(t) == <<TextCode(t)>>

Empties(n) == [k \in 1 .. n |-> <<>>]

\* Word j (0..7, four bytes little-endian) of sha256(text + str(counter)): a fixed
\* function of its arguments stands for the digest.
Sha256Word(code, counter, j) ==
    (code * 104729677 + counter * 15485863 + j * 179424673 + 374761393) % WordModulus

\* Variant: the digest is salted with what the process did before.
_fake_embedding_salted(t, d) ==
    LET n == Max(MinFakeDim, d)
    IN  [i \in 1 .. n |->
            Sha256Word(TextCode(t) + Len(prev_fake.texts), (i - 1) \div DigestWords,
                       (i - 1) % DigestWords) % FakeScale]

_fake_embedding(t, d) ==
    LET n == Max(MinFakeDim, d)
    IN  [i \in 1 .. n |->
            Sha256Word(TextCode(t), (i - 1) \div DigestWords, (i - 1) % DigestWords) % FakeScale]

\* What the provider can answer to a request of n texts: a response with items for
\* the positions in have, or an error.
Answers(n) ==
    {[kind |-> "ok", have |-> h, limit |-> 0] : h \in SUBSET (0 .. (n - 1))}
    \cup {[kind |-> k, have |-> {}, limit |-> 0] : k \in {"rate_limit", "timeout", "other"}}
    \cup {[kind |-> "batch_size", have |-> {}, limit |-> l] : l \in BatchLimits}

\* _is_rate_limited
_is_rate_limited(ans) == ans.kind = "rate_limit"

\* Variant: the bound on the attempts is not looked at.
RetryAlways(ans) == _is_rate_limited(ans)

\* Variant: a rate-limit error is handed on as any other error.
RetryNever(ans) == FALSE

\* The condition under which the loop waits and tries again.
ShouldRetry(ans) == _is_rate_limited(ans) /\ attempt < max_retries

\* Variant: the delivered vectors, one after the other.
CollectDelivered(batch, have) ==
    LET RECURSIVE From(_)
        From(k) == IF k > Len(batch) THEN <<>>
                   ELSE (IF (k - 1) \in have THEN <<ProviderEmbedding(batch[k])>> ELSE <<>>)
                        \o From(k + 1)
    IN  From(1)

\* out[item.index] = item.embedding, None replaced by [].
Collect(batch, have) ==
    [k \in 1 .. Len(batch) |-> IF (k - 1) \in have THEN ProviderEmbedding(batch[k]) ELSE <<>>]

cleaned == [k \in DOMAIN texts |-> Clean(texts[k])]
\* The input of the request that is due.
Batch ==
    IF splitting THEN SubSeq(cleaned, start + 1, Min(start + max_batch, Len(texts)))
    ELSE cleaned

\* The positions a sub-batch was answered for: none when the request failed.
Delivered(ans) == IF ans.kind = "ok" THEN ans.have ELSE {}

\* Variant: a sub-batch that failed adds nothing to out_all.
SubBatchDropped(ans) ==
    IF ans.kind = "ok" THEN Collect(Batch, ans.have) ELSE <<>>

\* What a sub-batch adds to out_all: its vectors, or one empty vector per item
\* when the request failed.
SubBatchOut(ans) ==
    IF ans.kind = "ok" THEN Collect(Batch, ans.have) ELSE Empties(Len(Batch))

GetEmbeddings(ts, fake, d, client, retry_env) ==
    /\ emb_pc = "idle"
    /\ texts' = ts
    /\ max_retries' = Max(0, Min(retry_env, RetryMaxCap))
    /\ attempt' = 0
    /\ calls' = 0
    /\ sleeps' = 0
    /\ last_answer' = NoAnswer
    /\ splitting' = FALSE
    /\ max_batch' = 0
    /\ start' = 0
    /\ out_all' = <<>>
    /\ subs' = NoSubs
    /\ IF ts = <<>>
       THEN /\ out' = <<>>
            /\ fake_dim' = 0
            /\ emb_pc' = "returned"
       ELSE IF fake
            THEN /\ out' = [k \in DOMAIN ts |-> _fake_embedding(ts[k], d)]
                 /\ fake_dim' = d
                 /\ emb_pc' = "returned"
            ELSE /\ fake_dim' = 0
                 /\ IF ~client
                    THEN /\ out' = Empties(Len(ts))
                         /\ emb_pc' = "returned"
                    ELSE /\ out' = <<>>
                         /\ emb_pc' = "create"
    /\ UNCHANGED <<prev_fake, kb_vars, meta_vars, search_vars, del_vars, xfer_vars, pipe_vars, ext>>

\* One pass of the loop of _embeddings_create_with_retry, and what get_embeddings
\* does with the response or the error when the loop is left.
ProviderAnswers(ans) ==
    /\ emb_pc = "create"
    /\ calls' = calls + 1
    /\ last_answer' = ans
    /\ IF ShouldRetry(ans)
       THEN /\ attempt' = attempt + 1
            /\ sleeps' = sleeps + 1
            /\ UNCHANGED <<emb_pc, splitting, max_batch, start, out_all, out, subs>>
       ELSE IF ~splitting
            THEN IF ans.kind = "ok"
                 THEN /\ out' = Collect(Batch, ans.have)
                      /\ emb_pc' = "returned"
                      /\ UNCHANGED <<attempt, sleeps, splitting, max_batch, start, out_all, subs>>
                 ELSE IF ans.kind = "batch_size"
                      THEN /\ splitting' = TRUE
                           /\ max_batch' = Max(1, Min(ans.limit, MaxBatchCap))
                           /\ subs' = [limit |-> ans.limit, sent |-> <<>>]
                           /\ start' = 0
                           /\ out_all' = <<>>
                           /\ attempt' = 0
                           /\ UNCHANGED <<emb_pc, sleeps, out>>
                      ELSE /\ out' = Empties(Len(texts))
                           /\ emb_pc' = "returned"
                           /\ UNCHANGED <<attempt, sleeps, splitting, max_batch, start, out_all, subs>>
            ELSE LET all == out_all \o SubBatchOut(ans)
                 IN  /\ out_all' = all
                     /\ subs' = [subs EXCEPT !.sent = Append(@, [from |-> start, items |-> Batch,
                                                                 have |-> Delivered(ans)])]
                     /\ UNCHANGED <<sleeps, splitting, max_batch>>
                     /\ IF start + max_batch >= Len(texts)
                        THEN /\ out' = IF Len(all) = Len(texts) THEN all ELSE Empties(Len(texts))
                             /\ emb_pc' = "returned"
                             /\ UNCHANGED <<attempt, start>>
                        ELSE /\ start' = start + max_batch
                             /\ attempt' = 0
                             /\ UNCHANGED <<emb_pc, out>>
    /\ UNCHANGED <<texts, max_retries, fake_dim, prev_fake, kb_vars, meta_vars, search_vars, del_vars, xfer_vars, pipe_vars, ext>>

\* The caller takes the value; the next call can begin.
EmbReturn ==
    /\ emb_pc = "returned"
    /\ emb_pc' = "idle"
    /\ prev_fake' = IF fake_dim > 0 THEN [texts |-> texts, dim |-> fake_dim, out |-> out]
                    ELSE prev_fake
    /\ texts' = <<>>
    /\ max_retries' = 0
    /\ attempt' = 0
    /\ calls' = 0
    /\ sleeps' = 0
    /\ last_answer' = NoAnswer
    /\ splitting' = FALSE
    /\ max_batch' = 0
    /\ start' = 0
    /\ out_all' = <<>>
    /\ out' = <<>>
    /\ subs' = NoSubs
    /\ fake_dim' = 0
    /\ UNCHANGED <<kb_vars, meta_vars, search_vars, del_vars, xfer_vars, pipe_vars, ext>>

(***************************************************************************)
(* _upsert_paper_and_reviews on the metadata store.  A paper p carries its *)
(* id, the five provenance values (row), whether SQLite can bind the       *)
(* values of its papers row, and its reviews: is_list tells a list from an *)
(* absent value, items are "r1", "r2" (dicts), "bad" (a dict holding a     *)
(* value SQLite cannot bind) or "junk" (not a dict).                       *)
(***************************************************************************)
\* TRIM(v); " " is the one blank value of the model.
Trim(v) == IF v = " " THEN "" ELSE v
\* excluded.f IS NOT NULL AND excluded.f <> '', with TRIM for the trimmed columns.
Overwrites(f, v) == v # NULL /\ (IF f \in TrimmedFields THEN Trim(v) ELSE v) # ""

\* Variant: every provenance column is merged with COALESCE(excluded.f, papers.f).
UpsertRowCoalesce(old, new) ==
    IF old = NoRow THEN new
    ELSE [f \in ProvFields |-> IF new[f] # NULL THEN new[f] ELSE old[f]]

\* INSERT INTO papers ... ON CONFLICT(id) DO UPDATE SET ..., on the five columns.
UpsertRow(old, new) ==
    IF old = NoRow THEN new
    ELSE [f \in ProvFields |-> IF Overwrites(f, new[f]) THEN new[f] ELSE old[f]]

\* Variant: INSERT OR REPLACE without the DELETE: an old row stays unless a new
\* row takes its idx.
ReplacedReviewsKeepOld(old, items) ==
    LET bad == {k \in DOMAIN items : items[k] = "bad"}
        stop == IF bad = {} THEN Len(items) + 1
                ELSE CHOOSE k \in bad : \A j \in bad : k <= j
        rows == {<<k - 1, items[k]>> : k \in {j \in 1 .. stop - 1 : items[j] # "junk"}}
    IN  {r \in old : \A n \in rows : n[1] # r[1]} \cup rows

\* DELETE FROM reviews WHERE paper_id = ?, then one INSERT per dict of the list
\* with idx its position; the loop stops at the first INSERT that raises.
ReplacedReviews(old, items) ==
    LET bad == {k \in DOMAIN items : items[k] = "bad"}
        stop == IF bad = {} THEN Len(items) + 1
                ELSE CHOOSE k \in bad : \A j \in bad : k <= j
    IN  {<<k - 1, items[k]>> : k \in {j \in 1 .. stop - 1 : items[j] # "junk"}}

\* Whether the reviews of p are replaced: isinstance(reviews, list) and (reviews or flag).
ReplacesReviews(p, replace_empty) == p.reviews.is_list /\ (p.reviews.items # <<>> \/ replace_empty)
\* Whether the call raises, and whether it raises at the papers row.
RowRaises(p) == p.id # "" /\ ~p.bindable
ReviewRaises(p, replace_empty) ==
    /\ p.id # "" /\ p.bindable /\ ReplacesReviews(p, replace_empty)
    /\ \E k \in DOMAIN p.reviews.items : p.reviews.items[k] = "bad"

\* The provenance values the upserts of one id have carried: the row of the first
\* upsert, and per column the last value that was neither NULL nor empty.
Supply(sup, row) ==
    [first |-> IF sup.first = NoRow THEN row ELSE sup.first,
     latest |-> [f \in ProvFields |-> IF Overwrites(f, row[f]) THEN row[f] ELSE sup.latest[f]]]

MetaUpsert(p, replace_empty) ==
    /\ ~meta_call.active
    /\ LET executes == p.id # "" /\ p.bindable
           raises == RowRaises(p) \/ ReviewRaises(p, replace_empty)
           conn1 == IF ~executes THEN meta_conn
                    ELSE [papers |-> [meta_conn.papers EXCEPT
                                         ![p.id] = UpsertRow(@, p.row)],
                          reviews |-> IF ReplacesReviews(p, replace_empty)
                                      THEN [meta_conn.reviews EXCEPT
                                               ![p.id] = ReplacedReviews(@, p.reviews.items)]
                                      ELSE meta_conn.reviews]
       IN  /\ meta_conn' = conn1
           \* self._meta_conn.commit() is the last statement: a call that returned
           \* early or raised has not run it.
           /\ meta_file' = IF executes /\ ~raises THEN conn1 ELSE meta_file
           /\ supplied' = IF executes
                          THEN [supplied EXCEPT ![p.id] = Supply(@, p.row)]
                          ELSE supplied
           /\ meta_call' = [active |-> TRUE, p |-> p, replace_empty |-> replace_empty,
                            raised |-> raises, conn0 |-> meta_conn, file0 |-> meta_file]
    /\ UNCHANGED <<kb_vars, llm_vars, search_vars, del_vars, xfer_vars, pipe_vars, ext>>

\* The call hands control back to its caller.
MetaReturn ==
    /\ meta_call.active
    /\ meta_call' = NoCall
    /\ UNCHANGED <<meta_file, meta_conn, supplied, kb_vars, llm_vars, search_vars, del_vars, xfer_vars, pipe_vars, ext>>

(***************************************************************************)
(* search_chunks, search_semantic and get_chunk_by_id.  A query vector is  *)
(* its size (0: get_embedding gave an empty vector).  What LanceDB's       *)
(* tbl.search(v).limit(k).to_list() returns is given by a ranking of the   *)
(* rows of the table: the order of the rows by distance to v and their     *)
(* distances, which do not decrease along the order.                       *)
(***************************************************************************)
MaxDist == 2
MaxLimit == 3

Orders(n) == {f \in [1 .. n -> 1 .. n] : \A a, b \in 1 .. n : f[a] = f[b] => a = b}
Distances(n) ==
    {f \in [1 .. n -> 0 .. MaxDist] : \A a \in 1 .. n : a < n => f[a] <= f[a + 1]}
Rankings(n) == [order : Orders(n), dist : Distances(n)]

\* The rows of a table with their distances, nearest first.
Ranked(rows, rk) == [i \in DOMAIN rows |-> [row |-> rows[rk.order[i]], dist |-> rk.dist[i]]]
\* .limit(k).to_list(): the first k of the ranked rows.
Hits(ranked, k) == SubSeq(ranked, 1, Min(k, Len(ranked)))

\* Variant: the chunk search asks for as many hits as search_semantic does.
ChunkLimitWide(limit) == Max(limit * 8, 20)
\* The number of hits search_chunks asks for, and the number search_semantic asks for.
ChunkLimit(limit) == limit
RawLimit(limit) == Max(limit * 8, 20)

\* The enriched list of search_chunks: one entry per hit, in the order of the hits.
Enriched(hits) ==
    [i \in DOMAIN hits |-> [paper_id |-> hits[i].row.paper_id, chunk_id |-> hits[i].row.chunk_id,
                            source |-> hits[i].row.source, dist |-> hits[i].dist]]

\* Variant: the comparison is turned around.
Farther(best, hit) == hit.dist > best.dist
\* The test of the aggregation loop: dist < best_by_paper[pid]["_distance"].
Closer(best, hit) == hit.dist < best.dist

\* best_by_paper after the first n hits, as the list of its values in key order.
RECURSIVE BestByPaper(_, _)
BestByPaper(raw, n) ==
    IF n = 0 THEN <<>>
    ELSE LET best == BestByPaper(raw, n - 1)
             hit == raw[n]
             at == {i \in DOMAIN best : best[i].row.paper_id = hit.row.paper_id}
         IN  IF hit.row.paper_id = "" THEN best
             ELSE IF at = {} THEN Append(best, hit)
             ELSE [i \in DOMAIN best |-> IF i \in at /\ Closer(best[i], hit) THEN hit ELSE best[i]]

\* sorted(..., key=distance): a stable sort.
RECURSIVE SortedByDist(_)
SortedByDist(hits) ==
    IF hits = <<>> THEN <<>>
    ELSE LET least == CHOOSE i \in DOMAIN hits :
                          \A j \in DOMAIN hits :
                              hits[i].dist < hits[j].dist \/ (hits[i].dist = hits[j].dist /\ i <= j)
         IN  <<hits[least]>>
             \o SortedByDist([i \in 1 .. (Len(hits) - 1) |->
                                 IF i < least THEN hits[i] ELSE hits[i + 1]])

\* The results of search_semantic over the chunks table.
PaperResults(raw, limit) ==
    LET ranked == SubSeq(SortedByDist(BestByPaper(raw, Len(raw))), 1,
                         Min(limit, Len(BestByPaper(raw, Len(raw)))))
    IN  [i \in DOMAIN ranked |->
            [id |-> ranked[i].row.paper_id, dist |-> ranked[i].dist,
             best_chunk |-> [chunk_id |-> ranked[i].row.chunk_id, dist |-> ranked[i].dist]]]

\* The rows of a table, one entry per stored row.
TableRows(tbl) == IF tbl.exists THEN SeqOfBag(tbl.rows) ELSE <<>>

SearchChunks(limit, qdim, rk) ==
    /\ pc = "idle"
    /\ search.op = ""
    /\ LET hits == Hits(Ranked(TableRows(chunks_tbl), rk), ChunkLimit(limit))
           call == [NoSearch EXCEPT !.op = "search_chunks", !.limit = limit, !.qdim = qdim]
       IN  search' =
              IF ~db THEN [call EXCEPT !.raised = TRUE]
              ELSE IF ~chunks_tbl.exists \/ qdim = 0 THEN call
              ELSE IF ~CanSearch(chunks_tbl, qdim) THEN [call EXCEPT !.raised = TRUE]
              ELSE [call EXCEPT !.raw = hits, !.results = Enriched(hits)]
    /\ UNCHANGED <<kb_vars, llm_vars, meta_vars, del_vars, xfer_vars, pipe_vars, ext>>

SearchSemantic(limit, qdim, rk) ==
    /\ pc = "idle"
    /\ search.op = ""
    /\ LET call == [NoSearch EXCEPT !.op = "search_semantic", !.limit = limit, !.qdim = qdim]
           raw == Hits(Ranked(TableRows(chunks_tbl), rk), RawLimit(limit))
           fallback == Hits(Ranked(TableRows(papers_tbl), rk), limit)
       IN  search' =
              IF ~db THEN [call EXCEPT !.raised = TRUE]
              ELSE IF qdim = 0 THEN call
              ELSE IF chunks_tbl.exists
                   THEN IF ~CanSearch(chunks_tbl, qdim) THEN [call EXCEPT !.raised = TRUE]
                        ELSE [call EXCEPT !.raw = raw, !.results = PaperResults(raw, limit)]
              ELSE IF ~papers_tbl.exists THEN call
              ELSE IF ~CanSearch(papers_tbl, qdim) THEN [call EXCEPT !.raised = TRUE]
              ELSE [call EXCEPT !.op = "search_semantic_papers", !.raw = fallback,
                                !.results = fallback]
    /\ UNCHANGED <<kb_vars, llm_vars, meta_vars, del_vars, xfer_vars, pipe_vars, ext>>

\* Variant: the search runs without the where clause.
WhereAny(ranked, cid) == ranked
\* where("chunk_id = '<id>'", prefilter=True): the rows the search ranks.
Where(ranked, cid) == SelectSeq(ranked, LAMBDA h : h.row.chunk_id = cid)
\* The table search_semantic searches.
SemanticTable == IF chunks_tbl.exists THEN chunks_tbl ELSE papers_tbl

\* get_chunk_by_id: a search with the zero vector of the table's size over the
\* rows with the chunk_id, limit 1.
GetChunkById(cid, rk) ==
    /\ pc = "idle"
    /\ search.op = ""
    /\ LET call == [NoSearch EXCEPT !.op = "get_chunk_by_id", !.cid = cid]
           hits == Hits(Where(Ranked(TableRows(chunks_tbl), rk), cid), 1)
       IN  search' =
              IF cid = <<>> \/ ~db \/ ~chunks_tbl.exists THEN call
              ELSE [call EXCEPT !.raw = hits,
                                !.results = IF hits = <<>> THEN <<>> ELSE <<hits[1].row>>]
    /\ UNCHANGED <<kb_vars, llm_vars, meta_vars, del_vars, xfer_vars, pipe_vars, ext>>

\* The call hands its result, or its error, to the caller.
SearchReturn ==
    /\ search.op # ""
    /\ search' = NoSearch
    /\ UNCHANGED <<kb_vars, llm_vars, meta_vars, del_vars, xfer_vars, pipe_vars, ext>>

(***************************************************************************)
(* delete_paper and delete_papers, with the store failures they handle.    *)
(* ids are the ids left after strip and de-duplication; fails names the    *)
(* stores whose delete raises: "sqlite", "papers", "chunks".               *)
(***************************************************************************)
\* Variant: the chunks table is filtered on id, a column it does not have.
ChunksOfIdsById(tbl, ids) == {}
\* The rows the where clauses select: id IN (...) and paper_id IN (...).
PapersOfIds(tbl, ids) == {r \in AllRows(tbl) : r.id \in ids}
ChunksOfIds(tbl, ids) == {r \in AllRows(tbl) : r.paper_id \in ids}

\* Variant: the error of a LanceDB delete is returned as a failure of the call.
ReportsVectorFailure(fails) == fails = {}
\* "ok" of the result: the LanceDB errors are swallowed, the SQLite error is reported.
ReportsOk(fails) == "sqlite" \notin fails

DeleteCall(op, ids, fails) ==
    /\ pc = "idle"
    /\ deletion.op = ""
    /\ LET call == [NoDeletion EXCEPT !.op = op, !.ids = ids, !.fails = fails,
                                      !.before = <<sql_papers, sql_reviews, papers_tbl,
                                                   chunks_tbl>>]
           deletes == db /\ ids # {} /\ "sqlite" \notin fails
       IN  /\ deletion' =
                 IF ids = {} /\ (op = "delete_paper" \/ db) THEN call
                 ELSE IF ~db THEN [call EXCEPT !.raised = TRUE]
                 ELSE [call EXCEPT !.ok = ReportsOk(fails)]
           /\ sql_reviews' = IF deletes
                             THEN [p \in PaperIds |-> IF p \in ids THEN 0 ELSE sql_reviews[p]]
                             ELSE sql_reviews
           /\ sql_papers' = IF deletes THEN sql_papers \ ids ELSE sql_papers
           /\ papers_tbl' = IF deletes /\ "papers" \notin fails
                            THEN DeleteWhere(papers_tbl, PapersOfIds(papers_tbl, ids))
                            ELSE papers_tbl
           /\ chunks_tbl' = IF deletes /\ "chunks" \notin fails
                            THEN DeleteWhere(chunks_tbl, ChunksOfIds(chunks_tbl, ids))
                            ELSE chunks_tbl
           /\ metadata_df' = IF deletes THEN sql_papers' ELSE metadata_df
    /\ UNCHANGED <<db, pc, locals>>
    /\ UNCHANGED <<llm_vars, meta_vars, search_vars, xfer_vars, pipe_vars, ext>>

\* The call hands its result, or its error, to the caller.
DeleteReturn ==
    /\ deletion.op # ""
    /\ deletion' = NoDeletion
    /\ UNCHANGED <<kb_vars, llm_vars, meta_vars, search_vars, xfer_vars, pipe_vars, ext>>

(***************************************************************************)
(* Export and import of the data directory (backend/app.py).  The          *)
(* directory holds metadata.sqlite and the directories of the two LanceDB  *)
(* tables.  The SQLite file is read at two grains: row by row with the     *)
(* content of each row (meta_file), and as the ids of the papers with the  *)
(* number of reviews of each (sql_papers, sql_reviews), whose reviews have *)
(* idx 0 .. n - 1.                                                         *)
(***************************************************************************)
\* kb_path.exists(): initialize_db or an import has made the directory.
DirExists == db \/ imports > 0
Dir == <<meta_file, sql_papers, sql_reviews, papers_tbl, chunks_tbl>>

\* export_kb writes metadata.sqlite, papers.lance and chunks.lance into the ZIP.
SnapshotWithoutChunks ==
    [sqlite |-> meta_file, sql_papers |-> sql_papers, sql_reviews |-> sql_reviews,
     papers |-> papers_tbl, chunks |-> NoTable]
Snapshot ==
    [sqlite |-> meta_file, sql_papers |-> sql_papers, sql_reviews |-> sql_reviews,
     papers |-> papers_tbl, chunks |-> chunks_tbl]

\* INSERT OR IGNORE INTO papers: a row whose id the destination holds is skipped.
MergeRowsReplace(dst, src) == [id \in MetaIds |-> IF src[id] # NoRow THEN src[id] ELSE dst[id]]
MergeRows(dst, src) == [id \in MetaIds |-> IF dst[id] # NoRow THEN dst[id] ELSE src[id]]
\* INSERT OR IGNORE INTO reviews: a row whose (paper_id, idx) the destination holds is skipped.
MergeReviews(dst, src) ==
    [id \in MetaIds |-> dst[id] \cup {rv \in src[id] : \A d \in dst[id] : d[1] # rv[1]}]
\* _merge_sqlite, table by table.
_merge_sqlite(dst, src) ==
    [papers |-> MergeRows(dst.papers, src.papers),
     reviews |-> MergeReviews(dst.reviews, src.reviews)]
\* The same merge at the grain of ids and review counts.
MergePaperIds(dst, src) == dst \cup src
MergeReviewCounts(dst, src) == [p \in PaperIds |-> Max(dst[p], src[p])]

\* A table directory of the archive: copied when the destination has none, else its
\* rows are added to the destination's table; an add that LanceDB refuses is logged
\* and the import goes on.
ImportTable(dst, src) ==
    IF ~src.exists THEN dst
    ELSE IF ~dst.exists THEN src
    ELSE IF \A r \in AllRows(src) : Fits(r.vector, dst.dim)
         THEN [dst EXCEPT !.rows = BagPlus(@, src.rows)]
         ELSE dst

ExportKb ==
    /\ pc = "idle" /\ ~meta_call.active /\ transfer.op = ""
    /\ archive.exports < MaxExports
    /\ transfer' = [op |-> "export", raised |-> ~DirExists, again |-> FALSE, before |-> Dir]
    /\ archive' = IF DirExists
                  THEN [written |-> TRUE, exports |-> archive.exports + 1,
                        files |-> Snapshot, source |-> Dir]
                  ELSE archive
    /\ UNCHANGED <<kb_vars, llm_vars, meta_vars, search_vars, del_vars, imports, received, pipe_vars, ext>>

\* import_kb with the archive of the last export.  A write transaction left open
\* on self._meta_conn makes the merge's INSERT raise "database is locked".
ImportKb ==
    /\ pc = "idle" /\ ~meta_call.active /\ transfer.op = ""
    /\ archive.written
    /\ imports < MaxImports
    /\ LET src == archive.files
           copies == ~DirExists
           raises == DirExists /\ meta_conn # meta_file
           \* The directory's metadata is as the last import left it, and that
           \* import was of this archive.
           again == received = [sqlite |-> src.sqlite, after |-> meta_file]
       IN  /\ transfer' = [op |-> "import", raised |-> raises, again |-> again,
                           before |-> Dir]
           /\ IF raises
              THEN UNCHANGED <<meta_file, meta_conn, sql_papers, sql_reviews, papers_tbl,
                               chunks_tbl, received>>
              ELSE /\ meta_file' = IF copies THEN src.sqlite
                                   ELSE _merge_sqlite(meta_file, src.sqlite)
                   /\ meta_conn' = meta_file'
                   /\ sql_papers' = IF copies THEN src.sql_papers
                                    ELSE MergePaperIds(sql_papers, src.sql_papers)
                   /\ sql_reviews' = IF copies THEN src.sql_reviews
                                     ELSE MergeReviewCounts(sql_reviews, src.sql_reviews)
                   /\ papers_tbl' = ImportTable(papers_tbl, src.papers)
                   /\ chunks_tbl' = ImportTable(chunks_tbl, src.chunks)
                   /\ received' = [sqlite |-> src.sqlite, after |-> meta_file']
    /\ imports' = imports + 1
    /\ UNCHANGED <<db, metadata_df, pc, locals, meta_call, supplied, archive>>
    /\ UNCHANGED <<llm_vars, search_vars, del_vars, pipe_vars, ext>>

\* The handler answers.
TransferReturn ==
    /\ transfer.op # ""
    /\ transfer' = NoTransfer
    /\ UNCHANGED <<kb_vars, llm_vars, meta_vars, search_vars, del_vars, archive, imports, received, pipe_vars, ext>>

\* The archive is taken to an installation whose data directory does not exist
\* yet: the knowledge base is as its constructor leaves it.
FreshInstall ==
    /\ pc = "idle" /\ ~meta_call.active /\ transfer.op = ""
    /\ archive.written
    /\ DirExists
    /\ Reset
    /\ db' = FALSE
    /\ sql_papers' = {}
    /\ sql_reviews' = [p \in PaperIds |-> 0]
    /\ metadata_df' = {}
    /\ papers_tbl' = NoTable
    /\ chunks_tbl' = NoTable
    /\ meta_file' = EmptyStore
    /\ meta_conn' = EmptyStore
    /\ supplied' = NoSupplied
    /\ imports' = 0
    /\ received' = NoReceipt
    /\ UNCHANGED <<meta_call, archive, transfer, llm_vars, search_vars, del_vars, pipe_vars, ext>>

(***************************************************************************)
(* The ingest job.  run_ingest_job opens the knowledge base and calls      *)
(* ingest_venue, which walks the fetched list in batches: download, parse, *)
(* ingest_data.  A paper is its position in the list; the stores are kept  *)
(* as the ids that have a row in the metadata store, in the papers table   *)
(* and in the chunks table (chunks.ids: the chunks every call writes,      *)
(* chunks.full: the full_text chunks, chunks.partial: the papers of which  *)
(* some full_text chunk has no row because its embedding came back empty). *)
(* The chunk embedding requests of a run all answer, all come back empty,  *)
(* or answer in part: every paper of a call that has content then gets     *)
(* some of its full_text rows and misses others.                           *)
(***************************************************************************)
BATCH_SIZE == 20

\* Every on_progress call of the job is wrapped in try / except Exception: pass:
\* ingestor.py 178-190, fetcher.py 139-153, 792-804, 819-831, storage.py 170-174,
\* 262-279, 292-302, 401-412, 430-434, 591-603, 611-623, 671-688.
SwallowingSites ==
    {"fetch_papers", "download_pdf", "parse_pdf", "ingest_metadata", "embed_papers",
     "write_papers", "prepare_chunks", "embed_chunks"}
\* _on_progress raises MujicaCancelled when the cancel_event is set; whether the
\* exception leaves the progress site.
CancelRaised(site) == job.cancel /\ site \notin SwallowingSites

\* papers[i : i + BATCH_SIZE], i counted from 0.
VenueBatchFromStart(list, i) == SubSeq(list, 1, Min(i + BATCH_SIZE, Len(list)))
VenueBatch(list, i) == SubSeq(list, i + 1, Min(i + BATCH_SIZE, Len(list)))
\* A paper of the list has a PDF on disk after the download when its position is odd.
HasPdf(id) == id % 2 = 1
existing_ids_in_meta(ids) == ids.meta
existing_ids_any_source(ids) == IF ids.chunks.exists THEN ids.chunks.ids ELSE {}
existing_ids_in_db(ids) == IF ids.chunks.exists THEN ids.chunks.full ELSE {}
parse_targets(batch, existing) == {id \in Range(batch) : id \notin existing /\ HasPdf(id)}
papers_to_ingest_all(batch, existing) == batch
papers_to_ingest(batch, existing) ==
    LET New(id) == id \notin existing IN SelectSeq(batch, New)

\* The batch of the running loop pass and the list handed to ingest_data.
CurrentBatch == VenueBatch(pipe.papers, pipe.i)
Ingested == Range(papers_to_ingest(CurrentBatch, pipe.existing))
InJob(pcs) == job.status = "running" /\ pipe.pc \in pcs

\* The step of the job after a progress site: on with the loop, or out of it as cancelled.
JobAfter(site) == IF CancelRaised(site) THEN [job EXCEPT !.status = "cancelled"] ELSE job
PcAfter(site, next) == IF CancelRaised(site) THEN "idle" ELSE next

\* run_ingest_job up to the first pass of the loop: the list is fetched and the
\* ids with full text are read once.
run_ingest_job(n, d, parse, papers_ok, chunks_ok, chunks_part) ==
    /\ pipe.pc \in {"idle", "stopped"}
    /\ job.started < MaxJobs
    /\ job' = [status |-> "running", cancel |-> FALSE, started |-> job.started + 1]
    /\ LET again == /\ pipe.pc = "stopped" /\ n = Len(pipe.papers) /\ parse = pipe.parse
                    /\ papers_ok /\ chunks_ok /\ ~chunks_part
       IN  pipe' = [NoPipe EXCEPT !.pc = "download", !.papers = [k \in 1 .. n |-> k],
                                  !.d = d, !.parse = parse, !.papers_ok = papers_ok,
                                  !.chunks_ok = chunks_ok, !.chunks_part = chunks_part,
                                  !.existing = existing_ids_in_db(kb_ids),
                                  !.before = kb_ids,
                                  !.restart = again,
                                  !.origin = IF again
                                             THEN (IF pipe.restart THEN pipe.origin
                                                   ELSE pipe.before)
                                             ELSE kb_ids]
    /\ UNCHANGED <<kb_ids, kb_vars, llm_vars, meta_vars, search_vars, del_vars, xfer_vars, ext>>

\* JobManager.cancel_job sets the event of a running job.
cancel_job ==
    /\ InJob({"download", "parse", "select", "upsert", "embed_papers", "prepare_chunks",
              "embed_chunks"})
    /\ ~job.cancel
    /\ job' = [job EXCEPT !.cancel = TRUE]
    /\ pipe' = [pipe EXCEPT !.cancel_at = pipe.i]
    /\ UNCHANGED <<kb_ids, kb_vars, llm_vars, meta_vars, search_vars, del_vars, xfer_vars, ext>>

DownloadBatch ==
    /\ InJob({"download"})
    /\ job' = JobAfter("download_pdf")
    /\ pipe' = [pipe EXCEPT !.pc = PcAfter("download_pdf", "parse")]
    /\ UNCHANGED <<kb_ids, kb_vars, llm_vars, meta_vars, search_vars, del_vars, xfer_vars, ext>>

ParseBatch ==
    /\ InJob({"parse"})
    /\ job' = JobAfter("parse_pdf")
    /\ pipe' = [pipe EXCEPT !.pc = PcAfter("parse_pdf", "select"),
                            !.parsed = IF pipe.parse
                                       THEN @ \cup parse_targets(CurrentBatch, pipe.existing)
                                       ELSE @]
    /\ UNCHANGED <<kb_ids, kb_vars, llm_vars, meta_vars, search_vars, del_vars, xfer_vars, ext>>

\* The end of a loop pass: the next batch, or the end of the job.
NextPass(p) ==
    IF p.i + BATCH_SIZE < Len(p.papers)
    THEN [p EXCEPT !.pc = "download", !.i = p.i + BATCH_SIZE]
    ELSE [p EXCEPT !.pc = "idle"]
JobAtEnd(p) ==
    IF p.i + BATCH_SIZE < Len(p.papers) THEN job ELSE [job EXCEPT !.status = "done"]

\* papers_to_ingest is built and, when it is not empty, handed to ingest_data.
IngestBatch ==
    /\ InJob({"select"})
    /\ LET list == papers_to_ingest(CurrentBatch, pipe.existing)
           call == [i |-> pipe.i, ids |-> list, returned |-> FALSE, writes |-> NoIds]
       IN  IF list = <<>>
           THEN /\ pipe' = NextPass(pipe)
                /\ job' = JobAtEnd(pipe)
           ELSE /\ pipe' = [pipe EXCEPT !.pc = "upsert", !.passed = Append(@, call)]
                /\ job' = job
    /\ UNCHANGED <<kb_ids, kb_vars, llm_vars, meta_vars, search_vars, del_vars, xfer_vars, ext>>

\* ingest_data, first loop: one committed upsert per paper.
BatchUpsert ==
    /\ InJob({"upsert"})
    /\ kb_ids' = [kb_ids EXCEPT !.meta = @ \cup Ingested]
    /\ job' = JobAfter("ingest_metadata")
    /\ pipe' = [pipe EXCEPT !.pc = PcAfter("ingest_metadata", "embed_papers")]
    /\ UNCHANGED <<kb_vars, llm_vars, meta_vars, search_vars, del_vars, xfer_vars, ext>>

\* ingest_data, the papers table: rows with a vector are written; a table of
\* another dimension is rebuilt from its rows of the new dimension, which are none.
BatchWritePapers ==
    /\ InJob({"embed_papers"})
    /\ LET rebuilds == pipe.papers_ok /\ kb_ids.rows.exists /\ kb_ids.rows.dim # pipe.d
       IN  /\ kb_ids' =
                 IF ~pipe.papers_ok THEN kb_ids
                 ELSE [kb_ids EXCEPT !.rows =
                          [exists |-> TRUE, dim |-> pipe.d,
                           ids |-> IF rebuilds THEN Ingested ELSE @.ids \cup Ingested]]
           /\ pipe' = [pipe EXCEPT !.pc = PcAfter("embed_papers", "prepare_chunks"),
                                   !.rebuilt = @ \/ rebuilds]
    /\ job' = JobAfter("embed_papers")
    /\ UNCHANGED <<kb_vars, llm_vars, meta_vars, search_vars, del_vars, xfer_vars, ext>>

\* ingest_data, the preparation loop: the stored chunks of each paper of the call
\* are deleted, the full_text ones only when the paper comes with content.
BatchPrepareChunks ==
    /\ InJob({"prepare_chunks"})
    /\ kb_ids' = [kb_ids EXCEPT !.chunks.ids = @ \ Ingested,
                                !.chunks.full = @ \ (Ingested \cap pipe.parsed),
                                !.chunks.partial = @ \ Ingested]
    /\ job' = JobAfter("prepare_chunks")
    /\ pipe' = [pipe EXCEPT !.pc = PcAfter("prepare_chunks", "embed_chunks")]
    /\ UNCHANGED <<kb_vars, llm_vars, meta_vars, search_vars, del_vars, xfer_vars, ext>>

\* ingest_data, the chunks table: the rows with a vector are added, and the add
\* raises when the table has another dimension; then the call returns and the
\* loop goes on.
BatchWriteChunks ==
    /\ InJob({"embed_chunks"})
    /\ LET raises == pipe.chunks_ok /\ kb_ids.chunks.exists /\ kb_ids.chunks.dim # pipe.d
           k == Len(pipe.passed)
           writes == [meta |-> Ingested,
                      rows |-> IF pipe.papers_ok THEN Ingested ELSE {},
                      chunks |-> IF pipe.chunks_ok THEN Ingested ELSE {}]
           returned == [pipe EXCEPT !.passed[k].returned = TRUE, !.passed[k].writes = writes]
       IN  IF raises
           THEN /\ job' = [job EXCEPT !.status = "error"]
                /\ pipe' = [pipe EXCEPT !.pc = "idle"]
                /\ kb_ids' = kb_ids
           ELSE /\ kb_ids' =
                      IF ~pipe.chunks_ok THEN kb_ids
                      ELSE [kb_ids EXCEPT !.chunks =
                               [exists |-> TRUE, dim |-> pipe.d,
                                ids |-> @.ids \cup Ingested,
                                full |-> @.full \cup (Ingested \cap pipe.parsed),
                                partial |-> IF pipe.chunks_part
                                            THEN @.partial \cup (Ingested \cap pipe.parsed)
                                            ELSE @.partial]]
                /\ IF CancelRaised("embed_chunks")
                   THEN /\ job' = [job EXCEPT !.status = "cancelled"]
                        /\ pipe' = [pipe EXCEPT !.pc = "idle"]
                   ELSE /\ job' = JobAtEnd(pipe)
                        /\ pipe' = NextPass(returned)
    /\ UNCHANGED <<kb_vars, llm_vars, meta_vars, search_vars, del_vars, xfer_vars, ext>>

\* The backend process stops: the job record is gone with it, the stores stay.
JobProcessStops ==
    /\ InJob({"download", "parse", "select", "upsert", "embed_papers", "prepare_chunks",
              "embed_chunks"})
    /\ job' = [NoJob EXCEPT !.started = job.started]
    /\ pipe' = [pipe EXCEPT !.pc = "stopped"]
    /\ UNCHANGED <<kb_ids, kb_vars, llm_vars, meta_vars, search_vars, del_vars, xfer_vars, ext>>

(***************************************************************************)
(* chunk_text on the units of a text (data_engine/chunker.py).  A text is  *)
(* a sequence of units, "w" for a unit that is not whitespace and "s" for  *)
(* a whitespace one.  With tiktoken a unit is a token (the tokens of a     *)
(* slice decode to the slice of the text, a whitespace token to            *)
(* whitespace); without it the except branch cuts by characters and a unit *)
(* is a character, four to a token.  A fragment is kept with its text and  *)
(* with the positions lo..hi of the trimmed text it covers.                *)
(***************************************************************************)
IsSpace(u) == u = "s"
AllSpace(s) == \A k \in DOMAIN s : IsSpace(s[k])
\* The whitespace units at the head and at the tail of s.
Leading(s) ==
    IF AllSpace(s) THEN Len(s)
    ELSE (CHOOSE k \in DOMAIN s : ~IsSpace(s[k]) /\ \A j \in 1 .. (k - 1) : IsSpace(s[j])) - 1
Trailing(s) ==
    IF AllSpace(s) THEN Len(s)
    ELSE Len(s) - (CHOOSE k \in DOMAIN s :
                       ~IsSpace(s[k]) /\ \A j \in (k + 1) .. Len(s) : IsSpace(s[j]))
\* str.strip()
lstrip(s) == IF AllSpace(s) THEN <<>> ELSE SubSeq(s, Leading(s) + 1, Len(s))
strip(s) == IF AllSpace(s) THEN <<>> ELSE SubSeq(s, Leading(s) + 1, Len(s) - Trailing(s))

\* max_tokens = max(50, int(max_tokens))
NoFloor(max_tokens) == max_tokens
EffectiveMax(max_tokens) == Max(MinChunkTokens, max_tokens)
\* overlap_tokens = max(0, ...); if overlap_tokens >= max_tokens: max_tokens // 5
NoClamp(overlap_tokens, m) == Max(0, overlap_tokens)
ClampOverlap(overlap_tokens, m) ==
    LET o == Max(0, overlap_tokens) IN IF o >= m THEN m \div 5 ELSE o
\* The units of a token: one in the token branch, approx_chars = max_tokens * 4 in
\* the character branch.
UnitsPerToken(mode) == IF mode = "token" THEN 1 ELSE 4

\* end = min(start + max_tokens, len(tokens)); start = max(0, end - overlap_tokens)
WindowEndLate(from, size, n) == Min(from + size + 1, n)
WindowEnd(from, size, n) == Min(from + size, n)
NextStartNoOverlap(end, overlap) == end
NextStart(end, overlap) == Max(0, end - overlap)
\* enc.decode(tokens[start:end]).strip(), text[start:end].strip()
Fragment(t, from, end) ==
    LET w == SubSeq(t, from + 1, end)
    IN  [text |-> strip(w), lo |-> from + Leading(w) + 1, hi |-> end - Trailing(w)]

\* chunk_text up to its loop: the text is stripped, the sizes are set, and the
\* empty text and the text that fits one window return at once.
ChunkTextCall(input, max_tokens, overlap_tokens, mode) ==
    /\ chunker.pc = "idle"
    /\ LET t == strip(input)
           m == EffectiveMax(max_tokens)
           o == ClampOverlap(overlap_tokens, m)
           call == [NoChunking EXCEPT !.mode = mode, !.input = input,
                                      !.max_tokens = max_tokens,
                                      !.overlap_tokens = overlap_tokens, !.text = t,
                                      !.size = m * UnitsPerToken(mode),
                                      !.overlap = o * UnitsPerToken(mode)]
       IN  chunker' =
              IF t = <<>> THEN [call EXCEPT !.pc = "returned"]
              ELSE IF Len(t) <= call.size
                   THEN [call EXCEPT !.pc = "returned",
                                     !.chunks = <<[text |-> t, lo |-> 1, hi |-> Len(t)]>>]
                   ELSE [call EXCEPT !.pc = "loop"]
    /\ UNCHANGED <<base, race_vars, life_vars>>

\* One pass of the while loop.
ChunkWindow ==
    /\ chunker.pc = "loop"
    /\ LET n == Len(chunker.text)
           end == WindowEnd(chunker.start, chunker.size, n)
           chunk == Fragment(chunker.text, chunker.start, end)
       IN  chunker' =
              [chunker EXCEPT
                  !.windows = Append(@, [start |-> chunker.start, end |-> end]),
                  !.chunks = IF chunk.text # <<>> THEN Append(@, chunk) ELSE @,
                  !.pc = IF end >= n THEN "returned" ELSE "loop",
                  !.start = IF end >= n THEN @ ELSE NextStart(end, chunker.overlap)]
    /\ UNCHANGED <<base, race_vars, life_vars>>

\* The caller has the list.
ChunkTextReturn ==
    /\ chunker.pc = "returned"
    /\ chunker' = NoChunking
    /\ UNCHANGED <<base, race_vars, life_vars>>

(***************************************************************************)
(* The papers write of ingest_data (storage.py 304-397) in several         *)
(* threads.  start_ingest starts a thread for every request, each          *)
(* run_ingest_job builds its own KnowledgeBase on the same directory, and  *)
(* the steps below are the LanceDB calls of one thread, taken in any       *)
(* interleaving.  A row is <<paper id, vector size>>; a job writes the row *)
(* of one paper of its own.  shared.created counts the create_table calls, *)
(* so a handle opened before a drop is known to be stale.                  *)
(***************************************************************************)
\* start_ingest: the thread is started; its ingest_data call reaches the papers
\* write with paper_rows of dimension d.
StartIngest(t, d) ==
    /\ writers[t].pc = "idle"
    /\ started < MaxStarts
    /\ started' = started + 1
    /\ writers' = [writers EXCEPT ![t] = [NoWriter EXCEPT !.pc = "open", !.d = d,
                                                          !.id = started + 1]]
    /\ UNCHANGED <<shared, lost, base, chunk_vars, life_vars>>

\* if self.papers_table in self.db.table_names(): open_table and the schema check.
OpenPapersTable(t) ==
    /\ writers[t].pc = "open"
    /\ writers' = [writers EXCEPT ![t].handle = shared.created,
                                  ![t].pc = IF ~shared.exists THEN "create"
                                            ELSE IF shared.dim # writers[t].d THEN "read"
                                            ELSE "delete"]
    /\ UNCHANGED <<shared, lost, started, base, chunk_vars, life_vars>>

\* old_rows = tbl.to_list(), [] when it raises; merged keeps the old rows of the
\* new dimension, which a table of another dimension has none of.
ReadOldRows(t) ==
    /\ writers[t].pc = "read"
    /\ LET read == IF shared.exists /\ shared.created = writers[t].handle
                   THEN shared.rows ELSE {}
       IN  writers' = [writers EXCEPT ![t].old_rows = read, ![t].pc = "drop"]
    /\ UNCHANGED <<shared, lost, started, base, chunk_vars, life_vars>>

\* The old rows the merge keeps, and the rows of the table a rebuild creates.
Kept(t) == {r \in writers[t].old_rows : r[2] = writers[t].d /\ r[1] # writers[t].id}
Own(t) == <<writers[t].id, writers[t].d>>

\* self.db.drop_table(self.papers_table, ignore_missing=True)
DropPapersTable(t) ==
    /\ writers[t].pc = "drop"
    /\ shared' = [shared EXCEPT !.exists = FALSE, !.rows = {}, !.dim = 0]
    /\ lost' = lost \cup {r \in shared.rows \ writers[t].old_rows :
                              r[2] = writers[t].d /\ r[1] # writers[t].id}
    /\ writers' = [writers EXCEPT ![t].pc = "recreate"]
    /\ UNCHANGED <<started, base, chunk_vars, life_vars>>

\* self.db.create_table(self.papers_table, data=..., schema=schema), of a first
\* table ("create") and of a rebuilt one ("recreate"): raises when the table
\* exists.
CreatePapersTable(t) ==
    /\ writers[t].pc \in {"create", "recreate"}
    /\ IF shared.exists
       THEN /\ writers' = [writers EXCEPT ![t].pc = "raised"]
            /\ shared' = shared
       ELSE /\ writers' = [writers EXCEPT ![t].pc = "done"]
            /\ shared' = [shared EXCEPT !.exists = TRUE, !.dim = writers[t].d,
                                        !.rows = Kept(t) \cup {Own(t)},
                                        !.created = @ + 1]
    /\ UNCHANGED <<lost, started, base, chunk_vars, life_vars>>

\* tbl.delete(f"id IN (...)") in try / except: pass.  On a handle whose table has
\* been dropped the call raises or reaches the table that replaced it.
DeleteOwnRows(t, reaches) ==
    /\ writers[t].pc = "delete"
    /\ LET live == shared.exists /\ (shared.created = writers[t].handle \/ reaches)
       IN  shared' = IF live
                     THEN [shared EXCEPT !.rows = {r \in @ : r[1] # writers[t].id}]
                     ELSE shared
    /\ writers' = [writers EXCEPT ![t].pc = "add"]
    /\ UNCHANGED <<lost, started, base, chunk_vars, life_vars>>

\* tbl.add(paper_rows): raises on a table of another dimension and on a handle
\* that reaches no table.
AddOwnRows(t, reaches) ==
    /\ writers[t].pc = "add"
    /\ LET live == shared.exists /\ (shared.created = writers[t].handle \/ reaches)
       IN  IF live /\ shared.dim = writers[t].d
           THEN /\ shared' = [shared EXCEPT !.rows = @ \cup {Own(t)}]
                /\ writers' = [writers EXCEPT ![t].pc = "done"]
           ELSE /\ shared' = shared
                /\ writers' = [writers EXCEPT ![t].pc = "raised"]
    /\ UNCHANGED <<lost, started, base, chunk_vars, life_vars>>

\* The thread ends: the job is done or in error.
EndIngest(t) ==
    /\ writers[t].pc \in {"done", "raised"}
    /\ writers' = [writers EXCEPT ![t] = NoWriter]
    /\ UNCHANGED <<shared, lost, started, base, chunk_vars, life_vars>>

(***************************************************************************)
(* The life of a job record (job_manager.py).  start_plan, start_research  *)
(* and start_ingest create a record and start the runner thread; the       *)
(* runner is the only writer of status and writes through _job_update,     *)
(* which sets all fields of one call under job.lock; to_dict reads under   *)
(* the same lock.  cancel_job sets the event of a record it finds.  Job    *)
(* ids are 1, 2, ... in the order of creation.                             *)
(***************************************************************************)
JobTypes == {"plan", "research", "ingest"}
\* finished_ts: Optional[float] = None; the moments read are counted from 1.
NoTimestamp == 0
FinalStatuses == {"done", "cancelled", "error"}

\* JobBase(job_id, type): the defaults of the dataclass.
JobBase(type) ==
    [type |-> type, status |-> "init", cancel_event |-> FALSE, started_ts |-> clock,
     finished_ts |-> NoTimestamp, late_cancel |-> FALSE]

\* manager.create_job(job_type), and the thread the request handler starts.
create_job(type) ==
    /\ Len(records) < MaxRecords
    /\ records' = Append(records, JobBase(type))
    /\ clock' = clock + 1
    /\ UNCHANGED <<base, chunk_vars, race_vars>>

\* Variant: the request writes the status itself.
cancel_sets_status(rec) ==
    [rec EXCEPT !.cancel_event = TRUE, !.status = "cancelled",
                !.late_cancel = rec.status \in FinalStatuses]

\* job.cancel_event.set(); late_cancel notes that the job had ended before.
set_cancel_event(rec) ==
    [rec EXCEPT !.cancel_event = TRUE, !.late_cancel = @ \/ rec.status \in FinalStatuses]

\* manager.cancel_job(job_id) for a job id the manager holds.
JobManager_cancel_job(id) ==
    /\ id \in DOMAIN records
    /\ records' = [records EXCEPT ![id] = set_cancel_event(@)]
    /\ UNCHANGED <<clock, base, chunk_vars, race_vars>>

\* The first statement of a runner: _job_update(job, status="running", ...).
RunnerStarts(id) ==
    /\ id \in DOMAIN records
    /\ records[id].status = "init"
    /\ records' = [records EXCEPT ![id].status = "running"]
    /\ UNCHANGED <<clock, base, chunk_vars, race_vars>>

\* The last statement of the try block: status="done", finished_ts=time.time().
RunnerDone(id) ==
    /\ id \in DOMAIN records
    /\ records[id].status = "running"
    /\ records' = [records EXCEPT ![id].status = "done", ![id].finished_ts = clock]
    /\ clock' = clock + 1
    /\ UNCHANGED <<base, chunk_vars, race_vars>>

\* except MujicaCancelled: raised by a stage that found the event set.
RunnerCancelled(id) ==
    /\ id \in DOMAIN records
    /\ records[id].status = "running"
    /\ records[id].cancel_event
    /\ records' = [records EXCEPT ![id].status = "cancelled", ![id].finished_ts = clock]
    /\ clock' = clock + 1
    /\ UNCHANGED <<base, chunk_vars, race_vars>>

\* except Exception: any other exception of the try block.
RunnerError(id) ==
    /\ id \in DOMAIN records
    /\ records[id].status = "running"
    /\ records' = [records EXCEPT ![id].status = "error", ![id].finished_ts = clock]
    /\ clock' = clock + 1
    /\ UNCHANGED <<base, chunk_vars, race_vars>>

(***************************************************************************)
(* The inputs of the runs.                                                 *)
(***************************************************************************)
SeqsUpTo(S, n) == UNION {[1 .. k -> S] : k \in 1 .. n}

Distinct(ps) == \A a, b \in DOMAIN ps : ps[a].id = ps[b].id => a = b

\* Spec: two papers with or without full text, each id once in a call, two dimensions.
PaperInputs ==
    {Paper(id, c, 0, FALSE, FALSE, FALSE, TRUE) : id \in PaperIds, c \in {0, LongLen}}
CallInputs == {ps \in SeqsUpTo(PaperInputs, MaxPapers) : Distinct(ps)}

\* SpecSel: one paper with every combination of the optional sections.
SelInputs ==
    {<<Paper("p1", c, r, dt, rt, tl, TRUE)>> :
        c \in {0, LongLen}, r \in 0 .. MaxReviews, dt \in BOOLEAN, rt \in BOOLEAN,
        tl \in BOOLEAN}
    \cup {<<Paper("", 0, MaxReviews, FALSE, FALSE, FALSE, TRUE)>>}

\* SpecDup: one paper, which may occur more than once in a call.
DupInputs ==
    SeqsUpTo({Paper(id, c, 0, FALSE, FALSE, FALSE, TRUE) : id \in {"p1", ""}, c \in {0, LongLen}},
             MaxPapers)

NextOver(Inputs, DimSet, Ids) ==
    \/ InitializeDb
    \/ \E ps \in Inputs, d \in DimSet : IngestData(ps, d)
    \/ \E ps \in Inputs : IngestDataNotInitialized(ps)
    \/ UpsertPaperAndReviews
    \/ \E ok \in SUBSET (1 .. Batches(Len(papers))) : EmbedAndWritePapers(ok)
    \/ PrepareChunks
    \/ \E ok \in SUBSET (1 .. Batches(Len(ChunkRows(papers, Len(papers))))) :
          EmbedAndWriteChunks(ok)
    \/ ChunksWriteFails
    \/ Crash
    \/ Finish
    \/ Restart
    \/ \E pid \in Ids : DeletePaper(pid)
    \/ \E ids \in SUBSET Ids : DeletePapers(ids)

Next ==
    \/ NextOver(CallInputs, Dims, PaperIds)
    \/ RebuildCreate
    \/ RebuildCreateFails

NextSel == NextOver(SelInputs, {64}, {"p1"})

NextDup == NextOver(DupInputs, {64}, {"p1"})

\* SpecLegacy: the store opens on a papers table an earlier version wrote without
\* a schema, whose year column was inferred as null because every year was None.
LegacyRow(id) == [id |-> id, year |-> NoneYear, vector |-> 64]
LegacyTables ==
    {[exists |-> TRUE, year_type |-> "null", dim |-> 64,
      rows |-> [r \in {LegacyRow(id) : id \in S} |-> 1]] : S \in (SUBSET PaperIds) \ {{}}}
LegacyInputs == {ps \in CallInputs : \A k \in DOMAIN ps : ps[k].content = 0}

InitLegacy ==
    /\ db = FALSE
    /\ sql_papers = {}
    /\ sql_reviews = [p \in PaperIds |-> 0]
    /\ metadata_df = {}
    /\ papers_tbl \in LegacyTables
    /\ chunks_tbl = NoTable
    /\ pc = "idle"
    /\ papers = <<>>
    /\ dim = 0
    /\ idx = 0
    /\ paper_vecs = <<>>
    /\ paper_rows = <<>>
    /\ merged = <<>>
    /\ chunk_vecs = <<>>
    /\ rows_to_insert = <<>>
    /\ requests = 0
    /\ papers0 = NoTable
    /\ chunks0 = NoTable
    /\ failed_at = ""
    /\ InitAux

NextLegacy ==
    \/ NextOver(LegacyInputs, Dims, PaperIds)
    \/ RebuildCreate
    \/ RebuildCreateFails

\* SpecEmb: calls of get_embeddings with and without a client.
\* SpecFake: calls of get_embeddings in fake mode.
TextInputs == {<<>>} \cup SeqsUpTo(TextSet, MaxTexts)
\* A retry bound above the cap is run on lists of one text.
EmbInputs ==
    {in \in TextInputs \X RetryMaxEnv : in[2] <= RetryMaxCap \/ Len(in[1]) <= 1}

NextEmb ==
    \/ \E in \in EmbInputs, client \in BOOLEAN : GetEmbeddings(in[1], FALSE, 0, client, in[2])
    \/ \E ans \in Answers(Len(Batch)) : ProviderAnswers(ans)
    \/ EmbReturn

NextFake ==
    \/ \E ts \in TextInputs, d \in FakeDims : GetEmbeddings(ts, TRUE, d, FALSE, 0)
    \/ EmbReturn

\* SpecProv: upserts of one paper, each carrying a value for one of the two
\* plainly compared columns and one of the three trimmed columns and NULL for
\* the rest.  pdf_url and decision take every kind of value; the columns merged
\* by the same expressions take NULL, the empty string and one text.
ProvValues(f) ==
    CASE f = "decision" -> {NULL, "", " ", "A", "B"}
      [] f = "pdf_url" -> {NULL, "", "A", "B"}
      [] OTHER -> {NULL, "", "A"}
ProvRows ==
    {row \in [ProvFields -> {NULL, "", " ", "A", "B"}] :
        /\ \A f \in ProvFields : row[f] \in ProvValues(f)
        /\ \E a \in ProvFields \ TrimmedFields, b \in TrimmedFields :
              \A f \in ProvFields \ {a, b} : row[f] = NULL}
NoReviews == [is_list |-> FALSE, items |-> <<>>]
NullRow == [f \in ProvFields |-> NULL]
ProvInputs ==
    {[id |-> "p1", row |-> row, bindable |-> TRUE, reviews |-> NoReviews] : row \in ProvRows}
    \cup {[id |-> "", row |-> NullRow, bindable |-> TRUE, reviews |-> NoReviews]}

NextProv ==
    \/ \E p \in ProvInputs : MetaUpsert(p, FALSE)
    \/ MetaReturn

\* SpecRev: upserts of paper p1 with a decision and with an absent list, an empty
\* list or a list of up to MaxMetaReviews items, next to an upsert whose papers
\* row cannot be bound, one of a second paper and one without an id.  Each input
\* is a paper and the value of MUJICA_REPLACE_EMPTY_REVIEWS; the second decision
\* and the override come with the lists of at most one item.
MaxMetaReviews == 2
ReviewItems == {"r1", "r2", "bad", "junk"}
ReviewLists == {<<>>} \cup SeqsUpTo(ReviewItems, MaxMetaReviews)
DecisionRow(d) == [f \in ProvFields |-> IF f = "decision" THEN d ELSE NULL]
MetaPaper(id, d, ok, rv) == [id |-> id, row |-> DecisionRow(d), bindable |-> ok, reviews |-> rv]
RevInputs ==
    {<<MetaPaper("p1", "A", TRUE, [is_list |-> TRUE, items |-> l]), FALSE>> : l \in ReviewLists}
    \cup {<<MetaPaper("p1", d, TRUE, [is_list |-> TRUE, items |-> l]), flag>> :
              d \in {"A", "B"}, l \in {x \in ReviewLists : Len(x) <= 1}, flag \in BOOLEAN}
    \cup {<<MetaPaper("p1", d, TRUE, NoReviews), flag>> : d \in {"A", "B"}, flag \in BOOLEAN}
    \cup {<<MetaPaper("p1", "B", FALSE, NoReviews), FALSE>>,
          <<MetaPaper("p2", NULL, TRUE, NoReviews), FALSE>>,
          <<MetaPaper("", NULL, TRUE, NoReviews), FALSE>>}

NextRev ==
    \/ \E in \in RevInputs : MetaUpsert(in[1], in[2])
    \/ MetaReturn

\* SpecAbort: calls of ingest_data in which the metadata upsert of a paper can raise.
NextAbort ==
    \/ NextOver(CallInputs, {64}, PaperIds)
    \/ UpsertRaises

\* SpecSearch: ingest and delete calls of two papers without full text, one with
\* two chunks and one with a single chunk, at one embedding size, and between
\* them searches with a failed, a fitting and an unfitting query vector and
\* lookups of chunk ids.
SearchPapers ==
    {Paper("p1", 0, 0, FALSE, FALSE, FALSE, TRUE), Paper("p2", 0, 0, FALSE, FALSE, FALSE, FALSE)}
SearchInputs == {ps \in SeqsUpTo(SearchPapers, MaxPapers) : Distinct(ps)}
QueryDims == {0} \cup Dims
ChunkIds ==
    {<<>>} \cup {<<id, src, 0>> : id \in PaperIds, src \in {"meta", "title_abstract", "full_text"}}

\* The rankings a search of tbl with a vector of size qdim can meet: one ranking
\* stands for all when the search does not take place.
RankingsFor(tbl, qdim) ==
    IF pc = "idle" /\ search.op = "" /\ db /\ CanSearch(tbl, qdim)
    THEN Rankings(Len(TableRows(tbl)))
    ELSE Rankings(0)

NextSearch ==
    \/ search.op = "" /\ NextOver(SearchInputs, {64}, PaperIds)
    \/ \E limit \in 1 .. MaxLimit, qdim \in QueryDims :
          \E rk \in RankingsFor(chunks_tbl, qdim) : SearchChunks(limit, qdim, rk)
    \/ \E limit \in 1 .. MaxLimit, qdim \in QueryDims :
          \E rk \in RankingsFor(SemanticTable, qdim) : SearchSemantic(limit, qdim, rk)
    \/ \E cid \in ChunkIds :
          \E rk \in RankingsFor(chunks_tbl, chunks_tbl.dim) : GetChunkById(cid, rk)
    \/ SearchReturn

\* SpecDelete: ingest calls of two papers with and without a review, and between
\* them delete calls in which any of the three deletes can raise.
DeleteInputs ==
    {ps \in SeqsUpTo({Paper(id, 0, r, FALSE, FALSE, FALSE, FALSE) :
                         id \in PaperIds, r \in {0, MaxReviews}}, MaxPapers) : Distinct(ps)}
StoreFailures == SUBSET {"sqlite", "papers", "chunks"}

NextDelete ==
    \/ deletion.op = "" /\ NextOver(DeleteInputs, {64}, PaperIds)
    \/ \E pid \in PaperIds \cup {""}, fails \in StoreFailures :
          DeleteCall("delete_paper", {pid} \ {""}, fails)
    \/ \E ids \in SUBSET PaperIds, fails \in StoreFailures :
          DeleteCall("delete_papers", ids, fails)
    \/ DeleteReturn

\* SpecMerge: upserts of two papers whose decision and reviews change between
\* exports, and imports of the archive into the same directory or a new one.
MergeInputs ==
    {MetaPaper("p1", "A", TRUE, [is_list |-> TRUE, items |-> <<"r1">>]),
     MetaPaper("p1", "B", TRUE, [is_list |-> TRUE, items |-> <<"r2", "r1">>]),
     MetaPaper("p1", "B", TRUE, [is_list |-> TRUE, items |-> <<"r2", "bad">>]),
     MetaPaper("p2", "A", TRUE, NoReviews)}

NextMerge ==
    \/ transfer.op = "" /\ ~meta_call.active /\ InitializeDb
    \/ db /\ transfer.op = "" /\ \E p \in MergeInputs : MetaUpsert(p, FALSE)
    \/ MetaReturn
    \/ ExportKb
    \/ ImportKb
    \/ TransferReturn
    \/ FreshInstall

\* SpecRound: ingest calls whose embedding requests all succeed and delete calls
\* of two papers, one of them with a review, with exports and imports between them.
RoundPapers ==
    {Paper("p1", 0, MaxReviews, FALSE, FALSE, FALSE, FALSE),
     Paper("p2", 0, 0, FALSE, FALSE, FALSE, FALSE)}
RoundInputs == {ps \in SeqsUpTo(RoundPapers, MaxPapers) : Distinct(ps)}

NextRound ==
    \/ transfer.op = "" /\ InitializeDb
    \/ transfer.op = "" /\ \E ps \in RoundInputs : IngestData(ps, 64)
    \/ UpsertPaperAndReviews
    \/ EmbedAndWritePapers(1 .. Batches(Len(papers)))
    \/ PrepareChunks
    \/ EmbedAndWriteChunks(1 .. Batches(Len(ChunkRows(papers, Len(papers)))))
    \/ Finish
    \/ transfer.op = "" /\ \E pid \in PaperIds : DeletePaper(pid)
    \/ ExportKb
    \/ ImportKb
    \/ TransferReturn
    \/ FreshInstall

\* SpecPipe: jobs over a list of one paper and over a list of three batches, at
\* two embedding dimensions, with and without parsing, with the embedding
\* requests answered, answered for part of the chunks, answered for the papers
\* only, or (over the short list) not answered, cancelled and stopped at any step.
ListLens == {1, MaxListLen}
EmbeddingOutcomes == {<<TRUE, TRUE>>, <<TRUE, FALSE>>}
\* The jobs whose chunk embeddings answer in part: with parsing, at one dimension.
PartDim == CHOOSE d \in Dims : \A e \in Dims : d <= e

NextPipe ==
    \/ \E n \in ListLens, d \in Dims, parse \in BOOLEAN, ok \in EmbeddingOutcomes :
          run_ingest_job(n, d, parse, ok[1], ok[2], FALSE)
    \/ \E n \in ListLens : run_ingest_job(n, PartDim, TRUE, TRUE, TRUE, TRUE)
    \/ \E d \in Dims, parse \in BOOLEAN : run_ingest_job(1, d, parse, FALSE, FALSE, FALSE)
    \/ cancel_job
    \/ DownloadBatch
    \/ ParseBatch
    \/ IngestBatch
    \/ BatchUpsert
    \/ BatchWritePapers
    \/ BatchPrepareChunks
    \/ BatchWriteChunks
    \/ JobProcessStops

\* SpecChunk: chunk_text over texts of up to MaxTextUnits units with whitespace
\* nowhere, at both ends, at every tenth unit, in a run longer than a window, or
\* everywhere; window sizes below, at and above the floor of 50; overlaps of
\* nothing, less than the window, the window and more; with and without tiktoken.
TextLens == {0, 2, 30, 50, 55, 130, MaxTextUnits}
Whitespace(n) ==
    {{}, {1, n}, 1 .. n, {k \in 1 .. n : k % 10 = 0}, {k \in 1 .. n : 38 <= k /\ k <= 112}}
TextOf(n, ws) == [k \in 1 .. n |-> IF k \in ws THEN "s" ELSE "w"]
ChunkTexts == {TextOf(n, ws \cap (1 .. n)) : n \in TextLens, ws \in UNION {Whitespace(n) : n \in TextLens}}
MaxTokenArgs == {10, 50, 60}
OverlapArgs == {0, 10, 20, 60, 75}
ChunkModes == {"token", "char"}

\* SpecJobs: up to MaxRecords jobs of the three types, cancel requests at any time.
JobIds == 1 .. MaxRecords
NextJobs ==
    \/ \E type \in JobTypes : create_job(type)
    \/ \E id \in JobIds : JobManager_cancel_job(id)
    \/ \E id \in JobIds : RunnerStarts(id)
    \/ \E id \in JobIds : RunnerDone(id)
    \/ \E id \in JobIds : RunnerCancelled(id)
    \/ \E id \in JobIds : RunnerError(id)

\* SpecRace: up to MaxStarts ingest jobs in two threads, at the two dimensions.
NextRace ==
    \/ \E t \in Threads, d \in Dims : StartIngest(t, d)
    \/ \E t \in Threads : OpenPapersTable(t)
    \/ \E t \in Threads : ReadOldRows(t)
    \/ \E t \in Threads : DropPapersTable(t)
    \/ \E t \in Threads : CreatePapersTable(t)
    \/ \E t \in Threads, reaches \in BOOLEAN : DeleteOwnRows(t, reaches)
    \/ \E t \in Threads, reaches \in BOOLEAN : AddOwnRows(t, reaches)
    \/ \E t \in Threads : EndIngest(t)

NextChunk ==
    \/ \E input \in ChunkTexts, max_tokens \in MaxTokenArgs, overlap_tokens \in OverlapArgs,
          mode \in ChunkModes :
          ChunkTextCall(input, max_tokens, overlap_tokens, mode)
    \/ ChunkWindow
    \/ ChunkTextReturn

Spec == Init /\ [][Next]_vars
SpecChunk == Init /\ [][NextChunk]_vars
SpecRace == Init /\ [][NextRace]_vars
SpecJobs == Init /\ [][NextJobs]_vars
SpecChunkLive == SpecChunk /\ WF_vars(ChunkWindow)
SpecPipe == Init /\ [][NextPipe]_vars
SpecMerge == Init /\ [][NextMerge]_vars
SpecRound == Init /\ [][NextRound]_vars
SpecDelete == Init /\ [][NextDelete]_vars
SpecSearch == Init /\ [][NextSearch]_vars
SpecAbort == Init /\ [][NextAbort]_vars
SpecProv == Init /\ [][NextProv]_vars
SpecRev == Init /\ [][NextRev]_vars
SpecEmb == Init /\ [][NextEmb]_vars
SpecFake == Init /\ [][NextFake]_vars
SpecLegacy == InitLegacy /\ [][NextLegacy]_vars
SpecSel == Init /\ [][NextSel]_vars
SpecDup == Init /\ [][NextDup]_vars

(***************************************************************************)
(* Properties.                                                             *)
(***************************************************************************)
\* The rows of paper pid in a chunks table whose source is in srcs.
ChunksOf(tbl, pid, srcs) ==
    BagKeep(tbl.rows, {r \in AllRows(tbl) : r.paper_id = pid /\ r.source \in srcs})
\* The rows this call wrote for paper pid with a source in srcs.
Written(pid, srcs) ==
    BagOfSeq(SelectSeq(rows_to_insert, LAMBDA r : r.paper_id = pid /\ r.source \in srcs))
HasChunks(tbl, pid, srcs) == DOMAIN ChunksOf(tbl, pid, srcs) # {}
\* The entries of the running call that carry an id and no full text.
MetadataOnly == {k \in DOMAIN papers : papers[k].id # "" /\ papers[k].content = 0}
MetaSources == {"meta", "title_abstract", "tldr"}

C2_OptionalCategories ==
    pc = "returned" =>
        \A k \in MetadataOnly :
            LET p == papers[k]
                Same(srcs) == ChunksOf(chunks_tbl, p.id, srcs) = ChunksOf(chunks0, p.id, srcs)
                New(srcs) == ChunksOf(chunks_tbl, p.id, srcs) = Written(p.id, srcs)
            IN  /\ IF p.reviews > 0 THEN New(ReviewSources) ELSE Same(ReviewSources)
                /\ IF p.decision_text THEN New({"decision"}) ELSE Same({"decision"})
                /\ IF p.rebuttal_text THEN New({"rebuttal"}) ELSE Same({"rebuttal"})

C2_Witness ==
    /\ pc = "returned"
    /\ MetadataOnly # {}
    /\ papers[1].reviews = 0 /\ ~papers[1].decision_text /\ papers[1].rebuttal_text
    /\ HasChunks(chunks0, "p1", ReviewSources)
    /\ HasChunks(chunks0, "p1", {"decision"})
    /\ HasChunks(chunks0, "p1", {"rebuttal"})
    /\ HasChunks(chunks_tbl, "p1", ReviewSources)
    /\ HasChunks(chunks_tbl, "p1", {"decision"})
    /\ rows_to_insert # <<>>

\* The call has gone through the chunk step: it returned, or the write raised.
ChunkStepOver == pc = "returned" \/ (pc = "raised" /\ chunk_vecs # <<>>)
\* The ids the running call lists with a non-empty content.
WithContent == {papers[k].id : k \in {j \in DOMAIN papers : papers[j].content > 0}} \ {""}

Committed(k) ==
    papers[k].id # "" =>
        /\ papers[k].id \in sql_papers
        /\ papers[k].reviews > 0 => sql_reviews[papers[k].id] = papers[k].reviews

\* C4: no embedding request is issued while the first loop runs, and from the
\* first request on, through the return or the raise of the call, every listed
\* paper with an id has its row and its supplied reviews in the metadata store.
C4_MetadataCommittedFirst ==
    /\ pc = "upsert" => requests = 0
    /\ (requests > 0
          \/ pc \in {"embed_papers", "rebuild", "prepare_chunks", "embed_chunks", "returned"}
          \/ (pc = "raised" /\ db /\ failed_at # "upsert"))
        => \A k \in DOMAIN papers : Committed(k)

C4_Witness ==
    /\ pc = "raised"
    /\ failed_at = "embed_chunks"
    /\ \A k \in DOMAIN paper_vecs : paper_vecs[k] = 0
    /\ papers[1].id = "p1"
    /\ papers[1].reviews > 0
    /\ "p1" \in sql_papers
    /\ sql_reviews["p1"] = papers[1].reviews
    /\ "p1" \notin metadata_df

\* C5 as stated: when every embedding of the chunk step came back empty, the
\* chunk rows a listed paper had before the call are still in the table.
C5_Original ==
    (pc = "returned" /\ chunk_vecs # <<>> /\ \A i \in DOMAIN chunk_vecs : chunk_vecs[i] = 0) =>
        \A k \in DOMAIN papers :
            \A r \in DOMAIN chunks0.rows :
                r.paper_id = papers[k].id => r \in DOMAIN chunks_tbl.rows

\* The papers step of the running call is over and did not raise.
PapersStepOver == pc \in {"prepare_chunks", "embed_chunks", "returned"} \/ ChunkStepOver

\* C6: no row of the papers table or of the chunks table has an empty vector.
\* In a call, a paper text that came back empty adds no row for its id and a
\* chunk text that came back empty leaves no row with its chunk_id, while each
\* text that was embedded has its row in the table once the step is over; an
\* empty embedding never makes the call raise.
C6_NoEmptyVectors ==
    /\ \A r \in AllRows(papers_tbl) \cup AllRows(chunks_tbl) : r.vector > 0
    /\ PapersStepOver =>
          LET payload == PaperPayload(papers, Len(papers))
          IN  \A k \in DOMAIN paper_vecs :
                  IF paper_vecs[k] > 0
                  THEN WithVector(payload[k], paper_vecs[k]) \in AllRows(papers_tbl)
                  ELSE \A r \in AllRows(papers_tbl) :
                           r.id = payload[k].id => r \in AllRows(papers0)
    /\ pc = "returned" =>
          LET chunk_rows == ChunkRows(papers, Len(papers))
          IN  \A i \in DOMAIN chunk_vecs :
                  IF chunk_vecs[i] > 0
                  THEN WithVector(chunk_rows[i], chunk_vecs[i]) \in AllRows(chunks_tbl)
                  ELSE \A r \in AllRows(chunks_tbl) : r.chunk_id # chunk_rows[i].chunk_id
    /\ (pc = "raised" /\ db /\ failed_at = "") =>
          /\ chunks0.exists /\ chunks0.dim # dim
          /\ \E i \in DOMAIN chunk_vecs : chunk_vecs[i] > 0

C6_Witness ==
    /\ pc = "returned"
    /\ \E i \in DOMAIN chunk_vecs : chunk_vecs[i] = 0
    /\ \E i \in DOMAIN chunk_vecs : chunk_vecs[i] > 0
    /\ \E k \in DOMAIN paper_vecs : paper_vecs[k] = 0
    /\ AllRows(papers_tbl) # {}
    /\ Cardinality(AllRows(chunks_tbl)) = Len(rows_to_insert)
    /\ Len(rows_to_insert) < Len(chunk_vecs)

\* C7 as stated: no two rows of the chunks table have the same chunk_id.
C7_Original ==
    /\ \A r \in AllRows(chunks_tbl) : chunks_tbl.rows[r] = 1
    /\ \A r1, r2 \in AllRows(chunks_tbl) : r1.chunk_id = r2.chunk_id => r1 = r2

\* C8 as stated, for each of the two tables: when the table held rows of one
\* dimension and the call embedded rows of another, and no store failed, the
\* call returns, the table holds the new rows and only rows of the new
\* dimension, and a query of the new dimension can be run on it.
C8_Original ==
    /\ (PapersStepOver /\ failed_at = "" /\ paper_rows # <<>>
          /\ AllRows(papers0) # {} /\ papers0.dim # dim)
        => /\ \A k \in DOMAIN paper_rows : paper_rows[k] \in AllRows(papers_tbl)
           /\ \A r \in AllRows(papers_tbl) : r.vector = dim
           /\ CanSearch(papers_tbl, dim)
    /\ (ChunkStepOver /\ failed_at = "" /\ rows_to_insert # <<>>
          /\ AllRows(chunks0) # {} /\ chunks0.dim # dim)
        => /\ pc = "returned"
           /\ \A k \in DOMAIN rows_to_insert : rows_to_insert[k] \in AllRows(chunks_tbl)
           /\ \A r \in AllRows(chunks_tbl) : r.vector = dim
           /\ CanSearch(chunks_tbl, dim)

\* C9: all rows of the papers table have vectors of one dimension, the one
\* its vector column is pinned to, and so have all rows of the chunks table.
C9_OneDimensionPerTable ==
    \A tbl \in {papers_tbl, chunks_tbl} :
        /\ \A r1, r2 \in AllRows(tbl) : r1.vector = r2.vector
        /\ \A r \in AllRows(tbl) : tbl.exists /\ r.vector = tbl.dim

C9_Witness ==
    /\ pc = "prepare_chunks"
    /\ AllRows(papers0) # {}
    /\ papers0.dim # papers_tbl.dim
    /\ Cardinality(AllRows(papers_tbl)) = 2
    /\ AllRows(chunks_tbl) # {}
    /\ chunks_tbl.dim # papers_tbl.dim

\* C10 as stated: when the rebuild has failed or the process has stopped in
\* it, the papers table exists and holds the rows it had when the call began.
C10_Original ==
    failed_at = "rebuild" => papers_tbl.exists /\ papers_tbl.rows = papers0.rows

\* The running call has rebuilt the papers table.
Rebuilt == PapersStepOver /\ merged # <<>>

ProviderVectors == [k \in DOMAIN texts |-> ProviderEmbedding(Clean(texts[k]))]
\* The running call went to the provider with the whole list and was not split.
Unsplit == emb_pc = "returned" /\ calls > 0 /\ ~splitting

\* C12: get_embeddings ends by returning; without fake mode the value has one
\* vector per text, and the vector at a position is the one the provider gave
\* for the text sent from that position, or the empty vector.
C12_SameLengthSameOrder ==
    /\ emb_pc \in {"idle", "create", "returned"}
    /\ (emb_pc = "returned" /\ fake_dim = 0) =>
          /\ Len(out) = Len(texts)
          /\ \A k \in DOMAIN texts : out[k] \in {ProviderVectors[k], <<>>}

C12_Witness ==
    /\ emb_pc = "returned"
    /\ splitting
    /\ Len(texts) = MaxTexts
    /\ texts[1] = "a\nb"
    /\ out[1] = ProviderEmbedding("a b")
    /\ out[2] = <<>>
    /\ out[MaxTexts] # <<>>

\* C13: when the provider answers the whole list with j rate-limit errors and
\* then with a complete response, j is at most max_retries, the provider was
\* called j + 1 times and the value is the provider's vector for every text.
C13_SucceedsAfterRateLimit ==
    (Unsplit /\ last_answer.kind = "ok" /\ last_answer.have = 0 .. (Len(texts) - 1)) =>
        /\ sleeps <= max_retries
        /\ calls = sleeps + 1
        /\ out = ProviderVectors

C13_Witness ==
    /\ Unsplit
    /\ last_answer.kind = "ok"
    /\ sleeps = 1
    /\ calls = 2
    /\ Len(texts) = 2
    /\ out = ProviderVectors

\* C14: max_retries lies in 0..30 and the attempt number never passes it, so
\* the provider calls of one call are bounded; when the whole list was
\* answered with rate-limit errors only, the provider was called
\* max_retries + 1 times and the value is an empty vector for every text.
C14_RetriesAreBounded ==
    /\ max_retries \in 0 .. RetryMaxCap
    /\ attempt <= max_retries
    /\ calls <= (max_retries + 1) * (1 + Len(texts))
    /\ (Unsplit /\ last_answer.kind = "rate_limit") =>
          /\ calls = max_retries + 1
          /\ sleeps = max_retries
          /\ out = Empties(Len(texts))

C14_Witness ==
    /\ Unsplit
    /\ last_answer.kind = "rate_limit"
    /\ max_retries = RetryMaxCap
    /\ calls = RetryMaxCap + 1
    /\ out = <<<<>>>>

\* C15 as stated: a list whose request ended with a timeout was sent to the
\* provider max_retries + 1 times before its items were returned as failed.
C15_Original ==
    (Unsplit /\ last_answer.kind = "timeout") => calls >= max_retries + 1

Stored(id) == meta_conn.papers[id]
\* The running call has executed its INSERT of the papers row.
RowWritten == meta_call.active /\ meta_call.p.id # "" /\ meta_call.p.bindable

\* C17 as stated: whatever upserts a paper id has had, each of its five
\* provenance columns holds the last value supplied that was not NULL and not
\* empty, and holds NULL when no such value was ever supplied.
C17_Original ==
    \A id \in MetaIds :
        Stored(id) # NoRow =>
            \A f \in ProvFields : Stored(id)[f] = supplied[id].latest[f]

\* C17, amended: each of the five provenance columns holds the last value
\* supplied that was not NULL and not empty (not blank, for decision,
\* decision_text and rebuttal_text), and when no such value was ever supplied
\* it holds what the first upsert of the id carried, NULL or empty as it was;
\* an upsert of a paper that has a row, carrying NULL or such an empty value
\* for a column, leaves that column as it was.
C17_ProvenanceKept ==
    /\ \A id \in MetaIds :
           Stored(id) # NoRow =>
               \A f \in ProvFields :
                   Stored(id)[f] = IF supplied[id].latest[f] # NULL
                                   THEN supplied[id].latest[f]
                                   ELSE supplied[id].first[f]
    /\ RowWritten =>
           LET id == meta_call.p.id
               old == meta_call.conn0.papers[id]
           IN  old # NoRow =>
                   \A f \in ProvFields :
                       ~Overwrites(f, meta_call.p.row[f]) => Stored(id)[f] = old[f]

\* An upsert with an empty pdf_url, a blank decision and nothing else has just
\* met a row that holds a pdf_url and a decision, and both are still there.
C17_Witness ==
    /\ RowWritten
    /\ meta_call.p.id = "p1"
    /\ meta_call.p.row["pdf_url"] = "" /\ meta_call.p.row["decision"] = " "
    /\ meta_call.conn0.papers["p1"] # NoRow
    /\ meta_call.conn0.papers["p1"]["pdf_url"] = "B"
    /\ Stored("p1")["pdf_url"] = "B" /\ Stored("p1")["decision"] = "A"
    /\ Stored("p1")["pdf_path"] = ""

\* The reviews of id as the connection reads them.
StoredReviews(id) == meta_conn.reviews[id]
\* The dicts of a review list, keyed by their position in the list.
Keyed(items) == {<<k - 1, items[k]>> : k \in {j \in DOMAIN items : items[j] # "junk"}}
\* The running call was given a paper with an id and has returned without raising.
Upserted == meta_call.active /\ meta_call.p.id # "" /\ ~meta_call.raised

C19_Original ==
    /\ (meta_call.active /\ meta_call.raised) =>
           meta_conn = meta_call.conn0 /\ meta_file = meta_call.file0
    /\ Upserted =>
           \A id \in MetaIds \ {meta_call.p.id} :
               /\ meta_file.papers[id] = meta_call.file0.papers[id]
               /\ meta_file.reviews[id] = meta_call.file0.reviews[id]

\* C20: when the metadata upsert of one paper of a call has raised, every other
\* paper of the call that carries an id has its row in the metadata store and
\* its meta chunk in the chunks table once the call is over.
C20_Original ==
    (pc = "raised" /\ failed_at = "upsert") =>
        \A k \in DOMAIN papers \ {idx} :
            papers[k].id # "" =>
                /\ papers[k].id \in sql_papers
                /\ HasChunks(chunks_tbl, papers[k].id, {"meta"})

\* C21: what search_chunks returns for limit k holds at most k results, each
\* with a chunk_id and a paper_id, in an order in which the distance does not
\* decrease, and each chunk_id is that of a row of the chunks table.
C21_ChunkHits ==
    (search.op = "search_chunks" /\ ~search.raised) =>
        LET res == search.results
        IN  /\ Len(res) <= search.limit
            /\ \A i \in DOMAIN res :
                   /\ res[i].chunk_id # <<>> /\ res[i].paper_id # ""
                   /\ \E r \in AllRows(chunks_tbl) :
                          r.chunk_id = res[i].chunk_id /\ r.paper_id = res[i].paper_id
            /\ \A i, j \in DOMAIN res : i < j => res[i].dist <= res[j].dist

\* A search with limit 2 over three rows has returned two hits at different distances.
C21_Witness ==
    /\ search.op = "search_chunks"
    /\ search.limit = 2
    /\ Len(TableRows(chunks_tbl)) = 3
    /\ Len(search.results) = 2
    /\ search.results[1].dist < search.results[2].dist
    /\ search.results[1].paper_id = "p2"

\* What search_semantic promises of a result list over the hits it was built from.
PaperLevel(res, raw, limit) ==
    /\ Len(res) <= limit
    /\ \A i, j \in DOMAIN res : i < j => res[i].id # res[j].id /\ res[i].dist <= res[j].dist
    /\ \A i \in DOMAIN res :
           /\ \E k \in DOMAIN raw :
                  /\ raw[k].row.paper_id = res[i].id
                  /\ raw[k].row.chunk_id = res[i].best_chunk.chunk_id
                  /\ raw[k].dist = res[i].best_chunk.dist
           /\ \A k \in DOMAIN raw :
                  raw[k].row.paper_id = res[i].id => res[i].best_chunk.dist <= raw[k].dist
           /\ res[i].dist = res[i].best_chunk.dist
\* The chunks table holds a row and the store is initialized.
ChunksToSearch == db /\ chunks_tbl.exists /\ AllRows(chunks_tbl) # {}

C23_ExactLookup ==
    search.op = "get_chunk_by_id" =>
        LET stored == {r \in AllRows(chunks_tbl) : r.chunk_id = search.cid}
        IN  /\ ~search.raised
            /\ IF db /\ chunks_tbl.exists /\ stored # {}
               THEN /\ Len(search.results) = 1
                    /\ search.results[1] \in stored
               ELSE search.results = <<>>

\* The lookup of the title_abstract chunk of p1 has returned it from a table of
\* three rows in which another row is nearest to the search vector.
C23_Witness ==
    /\ search.op = "get_chunk_by_id"
    /\ search.cid = <<"p1", "title_abstract", 0>>
    /\ Len(TableRows(chunks_tbl)) = 3
    /\ Len(search.results) = 1
    /\ search.results[1].chunk_id = search.cid
    /\ search.results[1].source = "title_abstract"

\* A delete call that reached its deletes: the store is initialized and ids were given.
Deleting == deletion.op # "" /\ ~deletion.raised /\ deletion.ids # {}
\* The rows of a papers table and of a chunks table that belong to the ids.
PaperRowsOf(tbl, ids) == BagKeep(tbl.rows, {r \in AllRows(tbl) : r.id \in ids})
ChunkRowsOf(tbl, ids) == BagKeep(tbl.rows, {r \in AllRows(tbl) : r.paper_id \in ids})

\* C24: after a delete call in which no store failed, the deleted ids have no
\* paper row and no review row in the metadata store and no row in either
\* vector table, and every other paper has the rows it had before the call.
C24_DeleteRemoves ==
    (Deleting /\ deletion.fails = {}) =>
        LET ids == deletion.ids
            others == PaperIds \ ids
        IN  /\ deletion.ok
            /\ sql_papers \cap ids = {}
            /\ \A id \in ids : sql_reviews[id] = 0
            /\ PaperRowsOf(papers_tbl, ids) = EmptyBag
            /\ ChunkRowsOf(chunks_tbl, ids) = EmptyBag
            /\ sql_papers \cap others = deletion.before[1] \cap others
            /\ \A id \in others : sql_reviews[id] = deletion.before[2][id]
            /\ PaperRowsOf(papers_tbl, others) = PaperRowsOf(deletion.before[3], others)
            /\ ChunkRowsOf(chunks_tbl, others) = ChunkRowsOf(deletion.before[4], others)
            /\ papers_tbl.exists = deletion.before[3].exists
            /\ chunks_tbl.exists = deletion.before[4].exists

\* p1, which had a review and rows in both tables, is gone, and p2 has its rows.
C24_Witness ==
    /\ Deleting /\ deletion.fails = {}
    /\ deletion.ids = {"p1"}
    /\ deletion.before[1] = {"p1", "p2"}
    /\ deletion.before[2]["p1"] > 0
    /\ ChunkRowsOf(deletion.before[4], {"p1"}) # EmptyBag
    /\ PaperRowsOf(deletion.before[3], {"p1"}) # EmptyBag
    /\ sql_papers = {"p2"}
    /\ ChunkRowsOf(chunks_tbl, {"p2"}) # EmptyBag

\* C25: when only deletes of the vector tables raise, the rows of the ids are
\* gone from the metadata store and the call reports success; when the delete
\* of the metadata store raises, the call reports an error and the metadata
\* store and both vector tables are as they were before the call.
C25_DeleteFailures ==
    Deleting =>
        IF "sqlite" \in deletion.fails
        THEN /\ ~deletion.ok
             /\ <<sql_papers, sql_reviews, papers_tbl, chunks_tbl>> = deletion.before
        ELSE /\ deletion.ok
             /\ sql_papers \cap deletion.ids = {}
             /\ \A id \in deletion.ids : sql_reviews[id] = 0

\* The delete of the chunks table raised: p1 has left the metadata store and the
\* papers table, its chunks are still there, and the call reports success.
C25_Witness ==
    /\ Deleting
    /\ deletion.fails = {"chunks"}
    /\ deletion.ids = {"p1"}
    /\ deletion.ok
    /\ "p1" \in deletion.before[1]
    /\ "p1" \notin sql_papers
    /\ PaperRowsOf(deletion.before[3], {"p1"}) # EmptyBag
    /\ PaperRowsOf(papers_tbl, {"p1"}) = EmptyBag
    /\ ChunkRowsOf(chunks_tbl, {"p1"}) # EmptyBag

\* An import that ran to its end, the metadata of the directory before it, and
\* the metadata of the archive.
Imported == transfer.op = "import" /\ ~transfer.raised
MetaBefore == transfer.before[1]
MetaOfArchive == archive.files.sqlite
HasKey(reviews, rv) == \E d \in reviews : d[1] = rv[1]

\* C26: after an import every paper row and every review row the directory held
\* before is there unchanged, every row of the archive whose primary key the
\* directory did not hold is there, and an import of the archive the directory
\* has just received changes no metadata row.
C26_MergeKeepsRows ==
    Imported =>
        /\ \A id \in MetaIds :
              /\ MetaBefore.papers[id] # NoRow => meta_file.papers[id] = MetaBefore.papers[id]
              /\ MetaBefore.reviews[id] \subseteq meta_file.reviews[id]
              /\ \A rv \in meta_file.reviews[id] :
                    HasKey(MetaBefore.reviews[id], rv) => rv \in MetaBefore.reviews[id]
              /\ (MetaOfArchive.papers[id] # NoRow /\ MetaBefore.papers[id] = NoRow)
                    => meta_file.papers[id] = MetaOfArchive.papers[id]
              /\ \A rv \in MetaOfArchive.reviews[id] :
                    ~HasKey(MetaBefore.reviews[id], rv) => rv \in meta_file.reviews[id]
        /\ transfer.again => meta_file = MetaBefore

\* The directory held p1 with decision B and two reviews, the archive holds p1
\* with decision A and one review, and p2: p1 is as it was and p2 has arrived.
C26_Witness ==
    /\ Imported
    /\ MetaBefore.papers["p1"].decision = "B"
    /\ MetaOfArchive.papers["p1"].decision = "A"
    /\ MetaBefore.reviews["p1"] = {<<0, "r2">>, <<1, "r1">>}
    /\ MetaOfArchive.reviews["p1"] = {<<0, "r1">>}
    /\ MetaBefore.papers["p2"] = NoRow
    /\ MetaOfArchive.papers["p2"] # NoRow
    /\ meta_file.papers["p1"].decision = "B"
    /\ meta_file.papers["p2"] = MetaOfArchive.papers["p2"]

\* The numbers of papers, of reviews and of chunk rows of a data directory.
RECURSIVE Total(_, _)
Total(f, keys) ==
    IF keys = {} THEN 0
    ELSE LET k == CHOOSE x \in keys : TRUE
         IN  f[k] + Total(f, keys \ {k})
Counts(dir) ==
    <<Cardinality(dir[2]), Total(dir[3], PaperIds), Total(dir[5].rows, DOMAIN dir[5].rows)>>
\* A directory nothing has been written to: no metadata row and no table.
FreshDir == <<EmptyStore, {}, [p \in PaperIds |-> 0], NoTable, NoTable>>

\* C27: after an import into a directory that held no row and no table, the
\* directory has as many papers, reviews and chunk rows as the directory the
\* archive was exported from had at the export.
C27_RoundTrip ==
    (Imported /\ transfer.before = FreshDir) => Counts(Dir) = Counts(archive.source)

\* Two papers, the reviews of one and the chunk rows of both have gone through the
\* archive into an initialized directory without rows.
C27_Witness ==
    /\ Imported /\ transfer.before = FreshDir
    /\ db
    /\ Counts(archive.source)[1] = 2
    /\ Counts(archive.source)[2] = MaxReviews
    /\ Counts(archive.source)[3] > 2
    /\ Counts(Dir) = Counts(archive.source)

\* The paper ids a returned ingest_data call wrote that a state of the stores holds.
Holds(ids, writes) ==
    /\ writes.meta \subseteq ids.meta
    /\ writes.rows \subseteq ids.rows.ids
    /\ writes.chunks \subseteq ids.chunks.ids

\* C28: every list handed to ingest_data lies within one window of BATCH_SIZE
\* consecutive papers and the windows follow one another; a call is started only
\* when the calls before it have returned; and at every point of the job and
\* after its end, stop or cancellation, the stores hold all that the returned
\* calls wrote.
C28_Checkpoint ==
    \A k \in DOMAIN pipe.passed :
        LET call == pipe.passed[k]
        IN  /\ Len(call.ids) <= BATCH_SIZE
            /\ \A id \in Range(call.ids) : call.i < id /\ id <= call.i + BATCH_SIZE
            /\ \A j \in DOMAIN pipe.passed : j < k => pipe.passed[j].i + BATCH_SIZE <= call.i
            /\ k < Len(pipe.passed) => call.returned
            /\ call.returned => Holds(kb_ids, call.writes)

\* The process stopped in the second batch, whose papers have metadata rows and
\* no chunk yet; the first batch's call had returned, and its rows are there.
C28_Witness ==
    /\ pipe.pc = "stopped"
    /\ Len(pipe.passed) = 2
    /\ pipe.passed[1].returned /\ ~pipe.passed[2].returned
    /\ pipe.passed[1].writes.rows # {} /\ pipe.passed[1].writes.chunks # {}
    /\ Len(pipe.passed[1].ids) = BATCH_SIZE
    /\ Range(pipe.passed[2].ids) \subseteq kb_ids.meta
    /\ Range(pipe.passed[2].ids) \cap kb_ids.chunks.ids = {}
    /\ Holds(kb_ids, pipe.passed[1].writes)

\* A job that ran to its end, the number of times a paper was handed to
\* ingest_data, and what the stores hold of a paper.
JobDone == job.status = "done" /\ pipe.pc = "idle"
PassedTimes(id) ==
    Cardinality({c \in {<<k, j>> : k \in DOMAIN pipe.passed, j \in 1 .. BATCH_SIZE} :
                    c[2] <= Len(pipe.passed[c[1]].ids) /\ pipe.passed[c[1]].ids[c[2]] = id})
MetaAndChunksOf(ids, id) == <<id \in ids.meta, id \in ids.chunks.ids, id \in ids.chunks.full>>
PaperRowOf(ids, id) == id \in ids.rows.ids

\* C29 as stated: after a job, a listed paper of the full-text-indexed set was
\* neither parsed nor handed to ingest_data and has the rows it had before in the
\* metadata store, the papers table and the chunks table, and every other listed
\* paper was handed to ingest_data once.
C29_Original ==
    JobDone =>
        \A id \in Range(pipe.papers) :
            IF id \in pipe.existing
            THEN /\ id \notin pipe.parsed
                 /\ PassedTimes(id) = 0
                 /\ MetaAndChunksOf(kb_ids, id) = MetaAndChunksOf(pipe.before, id)
                 /\ PaperRowOf(kb_ids, id) = PaperRowOf(pipe.before, id)
            ELSE PassedTimes(id) = 1

\* C29, amended: the same, the row of the papers table being the one it was
\* unless a call of the job rebuilt the papers table for another dimension.
C29_SkipsIndexed ==
    JobDone =>
        \A id \in Range(pipe.papers) :
            IF id \in pipe.existing
            THEN /\ id \notin pipe.parsed
                 /\ PassedTimes(id) = 0
                 /\ MetaAndChunksOf(kb_ids, id) = MetaAndChunksOf(pipe.before, id)
                 /\ pipe.rebuilt \/ PaperRowOf(kb_ids, id) = PaperRowOf(pipe.before, id)
            ELSE PassedTimes(id) = 1

\* A job over the long list with parsing, at the dimension of the tables: the
\* papers with full text were skipped, the others parsed and ingested.
C29_Witness ==
    /\ JobDone
    /\ Len(pipe.papers) = MaxListLen
    /\ pipe.existing # {}
    /\ pipe.parse /\ pipe.parsed # {}
    /\ ~pipe.rebuilt
    /\ pipe.chunks_ok
    /\ Len(pipe.passed) = 3
    /\ \A id \in pipe.existing : PaperRowOf(kb_ids, id) /\ id \in kb_ids.chunks.full

\* C30 as stated: a job whose cancel_event was set while batches remained does
\* not end as done.
C30_Original ==
    JobDone => ~(job.cancel /\ pipe.cancel_at >= 0
                 /\ pipe.cancel_at + BATCH_SIZE < Len(pipe.papers))

(***************************************************************************)
(* chunk_text.                                                             *)
(***************************************************************************)
\* The positions of a text that are not whitespace, and the text without the
\* whitespace at its two ends.
Words(t) == {k \in DOMAIN t : t[k] # "s"}
TrimOf(t) ==
    IF Words(t) = {} THEN <<>>
    ELSE SubSeq(t, CHOOSE k \in Words(t) : \A j \in Words(t) : k <= j,
                   CHOOSE k \in Words(t) : \A j \in Words(t) : k >= j)
\* The call has its list; the list of the fragment texts.
ChunkReturned == chunker.pc = "returned"
ChunkList == [k \in DOMAIN chunker.chunks |-> chunker.chunks[k].text]
\* max_size and overlap as the caller gave them, in the units of the text, the
\* overlap clamped as the contract says.
MaxSize == chunker.max_tokens * UnitsPerToken(chunker.mode)
ContractOverlap ==
    (IF chunker.overlap_tokens >= chunker.max_tokens THEN chunker.max_tokens \div 5
     ELSE chunker.overlap_tokens) * UnitsPerToken(chunker.mode)

\* C31 as stated: a text of at most max_size units comes back as the one-element
\* list of the trimmed text.
C31_Original ==
    (ChunkReturned /\ Len(chunker.input) <= MaxSize) => ChunkList = <<TrimOf(chunker.input)>>

\* C31, amended: a text of at most max_size units that is not empty or
\* whitespace-only comes back as the one-element list of the trimmed text.
C31_FitsOneFragment ==
    (ChunkReturned /\ Len(chunker.input) <= MaxSize /\ TrimOf(chunker.input) # <<>>)
        => ChunkList = <<TrimOf(chunker.input)>>

\* A text of exactly max_size units with whitespace at both ends came back trimmed.
C31_Witness ==
    /\ ChunkReturned
    /\ Len(chunker.input) = MaxSize
    /\ chunker.overlap_tokens >= chunker.max_tokens
    /\ IsSpace(chunker.input[1]) /\ IsSpace(chunker.input[Len(chunker.input)])
    /\ ChunkList = <<TrimOf(chunker.input)>>
    /\ Len(ChunkList[1]) = MaxSize - 2

\* C32 as stated: for a text longer than max_size the windows start
\* max_size - overlap apart, consecutive fragments share exactly overlap units,
\* every unit of the text is in a fragment and the last fragment ends at the end.
C32_Original ==
    (ChunkReturned /\ Len(chunker.text) > MaxSize) =>
        /\ \A k \in 1 .. (Len(chunker.windows) - 1) :
              chunker.windows[k + 1].start - chunker.windows[k].start
                  = MaxSize - ContractOverlap
        /\ \A k \in 1 .. (Len(chunker.chunks) - 1) :
              chunker.chunks[k].hi - chunker.chunks[k + 1].lo + 1 = ContractOverlap
        /\ \A q \in DOMAIN chunker.text :
              \E k \in DOMAIN chunker.chunks :
                  chunker.chunks[k].lo <= q /\ q <= chunker.chunks[k].hi
        /\ chunker.chunks # <<>>
        /\ chunker.chunks[Len(chunker.chunks)].hi = Len(chunker.text)

\* C32, amended: for max_size >= 50 and a text longer than max_size the windows
\* start max_size - overlap apart, consecutive windows share exactly overlap
\* units, the fragments are the windows without the whitespace at their ends
\* (a window of whitespace gives none), every unit that is not whitespace is in
\* a fragment and the last fragment ends at the end of the text.
C32_Windows ==
    (ChunkReturned /\ Len(chunker.text) > MaxSize /\ chunker.max_tokens >= MinChunkTokens) =>
        /\ \A k \in 1 .. (Len(chunker.windows) - 1) :
              /\ chunker.windows[k + 1].start - chunker.windows[k].start
                    = MaxSize - ContractOverlap
              /\ chunker.windows[k].end - chunker.windows[k + 1].start = ContractOverlap
        /\ \A k \in DOMAIN chunker.chunks :
              \E w \in DOMAIN chunker.windows :
                  chunker.chunks[k].text
                      = TrimOf(SubSeq(chunker.text, chunker.windows[w].start + 1,
                                      chunker.windows[w].end))
        /\ \A q \in Words(chunker.text) :
              \E k \in DOMAIN chunker.chunks :
                  chunker.chunks[k].lo <= q /\ q <= chunker.chunks[k].hi
        /\ chunker.chunks # <<>>
        /\ chunker.chunks[Len(chunker.chunks)].hi = Len(chunker.text)

\* A text without tiktoken cut into three windows or more, one of them trimmed.
C32_Witness ==
    /\ ChunkReturned
    /\ chunker.mode = "char"
    /\ chunker.max_tokens >= MinChunkTokens
    /\ ContractOverlap > 0
    /\ Len(chunker.windows) >= 3
    /\ Len(chunker.chunks) = Len(chunker.windows)
    /\ \E k \in DOMAIN chunker.chunks :
          Len(chunker.chunks[k].text) < chunker.windows[k].end - chunker.windows[k].start

\* C33 as stated: no fragment is longer than max_size.
C33_Original ==
    ChunkReturned => \A k \in DOMAIN ChunkList : Len(ChunkList[k]) <= MaxSize

\* C33, amended: for max_size >= 50 no fragment is longer than max_size.
C33_SizeBound ==
    (ChunkReturned /\ chunker.max_tokens >= MinChunkTokens)
        => \A k \in DOMAIN ChunkList : Len(ChunkList[k]) <= MaxSize

\* Several fragments, one of them of exactly max_size units.
C33_Witness ==
    /\ ChunkReturned
    /\ chunker.max_tokens >= MinChunkTokens
    /\ Len(ChunkList) >= 3
    /\ \E k \in DOMAIN ChunkList : Len(ChunkList[k]) = MaxSize

\* The loop goes on with a window that starts after the one before it.
StartGrows == (chunker.pc = "loop" /\ chunker'.pc = "loop") => chunker'.start > chunker.start
\* Empty or whitespace-only text gives the empty list.
EmptyGivesNone == (ChunkReturned /\ Words(chunker.input) = {}) => ChunkList = <<>>

\* C34 as stated: an overlap >= max_size is clamped to max_size / 5, the window
\* start grows at each step, the call returns, and it returns the empty list for
\* empty or whitespace-only text.
C34_Original ==
    /\ [](chunker.pc # "idle" => chunker.overlap = ContractOverlap)
    /\ [](EmptyGivesNone)
    /\ [][StartGrows]_vars
    /\ (chunker.pc = "loop") ~> ChunkReturned

\* C34, amended: an overlap >= max(50, max_size) is clamped to a fifth of
\* max(50, max_size), so the overlap is less than the window, the window start
\* grows at each step, the call returns, and it returns the empty list for empty
\* or whitespace-only text.
C34_Terminates ==
    /\ [](chunker.pc # "idle" =>
            LET m == Max(MinChunkTokens, chunker.max_tokens)
            IN  /\ chunker.overlap_tokens >= m
                      => chunker.overlap = (m \div 5) * UnitsPerToken(chunker.mode)
                /\ chunker.overlap < chunker.size)
    /\ [](EmptyGivesNone)
    /\ [][StartGrows]_vars
    /\ (chunker.pc = "loop") ~> ChunkReturned

\* A call with an overlap above the window size went through three windows.
C34_Witness ==
    /\ ChunkReturned
    /\ chunker.overlap_tokens > chunker.max_tokens
    /\ chunker.max_tokens > MinChunkTokens
    /\ Len(chunker.windows) >= 3

(***************************************************************************)
(* Restart of an interrupted ingest job.                                   *)
(***************************************************************************)
\* What the claim compares: the paper ids of the metadata store, the
\* full-text-indexed set, and the chunk_ids of the chunks table, kept as the
\* papers with chunk rows and those of them with full_text rows missing.
StoreSets(ids) ==
    [meta |-> ids.meta, full |-> ids.chunks.full, chunks |-> ids.chunks.ids,
     partial |-> ids.chunks.partial]
\* The same after one job over the list that is not interrupted and whose
\* embedding requests all answer, from the stores s.
OneRun(s, list, parse) ==
    LET new == Range(list) \ s.chunks.full
    IN  [meta |-> s.meta \cup new,
         full |-> s.chunks.full \cup (IF parse THEN {id \in new : HasPdf(id)} ELSE {}),
         chunks |-> s.chunks.ids \cup new,
         partial |-> s.chunks.partial \ new]
Restarted == JobDone /\ pipe.restart
\* The papers of the list that the interrupted job left in the full-text-indexed
\* set with chunk rows missing.
LeftPartial == pipe.before.chunks.partial \cap pipe.before.chunks.full \cap Range(pipe.papers)

Skipped == Range(pipe.papers) \cap pipe.existing

\* C39 as stated: a paper the job skipped has all its full_text chunks in the
\* chunks table; a paper with part of them is ingested again.
C39_Original ==
    JobDone => \A id \in Skipped : id \notin pipe.before.chunks.partial

\* C39, amended: a paper the job skipped has at least one full_text chunk in the
\* chunks table, and a paper with only part of its full_text chunks is skipped
\* too: it is handed to ingest_data by no call of the job and keeps its rows.
C39_SkippedHaveFullText ==
    JobDone =>
        /\ \A id \in Skipped :
              /\ id \in pipe.before.chunks.full
              /\ id \in kb_ids.chunks.full
              /\ PassedTimes(id) = 0
        /\ \A id \in Range(pipe.papers) \cap pipe.before.chunks.partial :
              id \in Skipped /\ id \in kb_ids.chunks.partial

\* A restart with parsing and answered embeddings has finished; it skipped papers
\* with part of their full_text chunks and ingested the others.
C39_Witness ==
    /\ JobDone
    /\ pipe.parse /\ pipe.chunks_ok /\ ~pipe.chunks_part
    /\ Skipped \cap pipe.before.chunks.partial # {}
    /\ Skipped \cap kb_ids.chunks.partial # {}
    /\ Len(pipe.passed) >= 2

(***************************************************************************)
(* ingest_data with content.                                               *)
(***************************************************************************)
EverySource == {"meta", "title_abstract", "tldr", "decision", "rebuttal", "full_text"}
                   \cup ReviewSources

Rebuilding(t) == writers[t].pc \in {"drop", "recreate"}

\* C37 as stated: while a thread is between the read and the recreate of its
\* rebuild no other thread changes the papers table, and no rebuild drops a row
\* of its own dimension that it has not read.
C37_Original ==
    /\ [][\A t \in Threads :
             (Rebuilding(t) /\ writers'[t] = writers[t]) => shared' = shared]_vars
    /\ [](lost = {})

(***************************************************************************)
(* The re-sending of a rejected list in sub-batches.                       *)
(***************************************************************************)
\* The running call was split and has returned.
SplitReturned == emb_pc = "returned" /\ splitting
\* The items of the sub-batches sent, one after the other.
RECURSIVE SentItems(_)
SentItems(k) == IF k = 0 THEN <<>> ELSE SentItems(k - 1) \o subs.sent[k].items
\* The vector owed at item k (from 1) of a sub-batch: the provider's vector when
\* the sub-batch was answered with that item, the empty vector otherwise.
Owed(sub, k) ==
    IF (k - 1) \in sub.have THEN ProviderEmbedding(sub.items[k]) ELSE <<>>
\* The sub-batches cover the list in order, each has from 1 to size items, and
\* every position of the value holds what its own sub-batch owes it.
SplitWithin(size) ==
    /\ SentItems(Len(subs.sent)) = cleaned
    /\ \A j \in DOMAIN subs.sent :
          LET sub == subs.sent[j]
          IN  /\ Len(sub.items) \in 1 .. size
              /\ sub.items = SubSeq(cleaned, sub.from + 1, sub.from + Len(sub.items))
              /\ \A k \in DOMAIN sub.items : out[sub.from + k] = Owed(sub, k)

\* C38 as stated: after a rejection naming the maximum batch size m the list is
\* re-sent as consecutive sub-batches of at most m items in input order, and
\* every position holds what its own sub-batch delivered for it.
C38_Original == SplitReturned => SplitWithin(subs.limit)

\* C38: after a rejection naming the maximum batch size m the list is re-sent
\* as consecutive sub-batches of at most max(1, m) items in input order; a
\* position holds the provider's vector for its input when its sub-batch
\* delivered it, and a sub-batch that failed leaves empty vectors at its own
\* positions only.
C38_SplitInOrder == SplitReturned => SplitWithin(Max(1, subs.limit))

C38_Witness ==
    /\ SplitReturned
    /\ Len(texts) = 3
    /\ subs.limit = 2
    /\ Len(subs.sent) = 2
    /\ last_answer.kind = "ok"
    /\ subs.sent[1].have = {}
    /\ subs.sent[2].have = {0}
    /\ out = <<<<>>, <<>>, ProviderEmbedding(Clean(texts[3]))>>

(***************************************************************************)
(* The life of a job record.                                               *)
(***************************************************************************)
\* The moves of a status the claim allows.
StatusMoves ==
    {<<"init", "running">>} \cup {<<"running", s>> : s \in FinalStatuses}

\* C40: the status of a job record stays or moves init -> running -> done,
\* cancelled or error; it never leaves one of these three, a cancel request
\* (also one that comes after the end) does not change it, and finished_ts is
\* set exactly in these three.
C40_StatusLifecycle ==
    /\ [][\A id \in DOMAIN records :
             /\ id \in DOMAIN records'
             /\ \/ records'[id].status = records[id].status
                \/ <<records[id].status, records'[id].status>> \in StatusMoves
             /\ (records'[id].cancel_event /\ ~records[id].cancel_event) =>
                    records'[id].status = records[id].status]_vars
    /\ [](\A id \in DOMAIN records :
             (records[id].finished_ts # NoTimestamp) <=> (records[id].status \in FinalStatuses))

C40_Witness ==
    /\ Len(records) = MaxRecords
    /\ records[1].status = "done"
    /\ records[1].late_cancel
    /\ records[1].finished_ts # NoTimestamp
    /\ records[2].status = "cancelled"
    /\ records[2].finished_ts > records[2].started_ts

====
